---- MODULE Spec2Model ----
(***************************************************************************)
(* The watcher daemon's deterministic core: the rule store (in-memory rule *)
(* list, serialized save queue, temp-file + rename persistence), and the   *)
(* rule engine (filter matching, sliding threshold windows, match          *)
(* recording).  Strings are sequences of one-character strings so that     *)
(* substring search, lower-casing and path.extname are computed.           *)
(***************************************************************************)
EXTENDS Integers, Sequences, FiniteSets, TLC

(***************************************************************************)
(* Bounds of the model.                                                    *)
(***************************************************************************)
MaxRules == 2
MaxRecords == 3
MaxRequests == 2
MaxOps == 1
MaxEvents == 2
MaxBurst == 3
MaxRestarts == 1
MaxFaults == 1
MaxInFlight == 2
MaxTicks == 2
MaxToggles == 2
MaxStream == 4
MaxRaw == 3
MaxClock == 5
DebounceTicks == 2
MaxGenerate == 3
MaxNotify == 4
MaxWait == 4
Epoch == 1
MaxEnqueue == 4
MaxAging == 1
RecentMatchLimit == 2

\* One clock tick, in milliseconds (Date.now() advances by whole ticks).
TickMs == 10 * 1000

(***************************************************************************)
(* Strings.                                                                *)
(***************************************************************************)
\* A string literal as the sequence of its characters.
RECURSIVE Chars(_)
Chars(s) == IF Len(s) = 0 THEN <<>> ELSE <<SubSeq(s, 1, 1)>> \o Chars(SubSeq(s, 2, Len(s)))

\* The lower-case letter of each upper-case letter.
LowerOf ==
  [A |-> "a", B |-> "b", C |-> "c", D |-> "d", E |-> "e", F |-> "f", G |-> "g",
   H |-> "h", I |-> "i", J |-> "j", K |-> "k", L |-> "l", M |-> "m", N |-> "n",
   O |-> "o", P |-> "p", Q |-> "q", R |-> "r", S |-> "s", T |-> "t", U |-> "u",
   V |-> "v", W |-> "w", X |-> "x", Y |-> "y", Z |-> "z"]

\* String.prototype.toLowerCase on one character.
LowerChar(c) == IF c \in DOMAIN LowerOf THEN LowerOf[c] ELSE c

\* String.prototype.toLowerCase.
RECURSIVE ToLowerCase(_)
ToLowerCase(s) ==
  IF Len(s) = 0 THEN <<>> ELSE <<LowerChar(s[1])>> \o ToLowerCase(SubSeq(s, 2, Len(s)))

\* String.prototype.trim: the text between the first and the last character
\* that is not white space.
IsSpace(c) == c = " "
Trim(s) ==
  LET inked == {i \in 1..Len(s) : ~IsSpace(s[i])} IN
  IF inked = {} THEN <<>>
  ELSE SubSeq(s, CHOOSE i \in inked : \A j \in inked : i <= j,
                 CHOOSE i \in inked : \A j \in inked : j <= i)

\* String.prototype.localeCompare(b) < 0 on lower-case text: punctuation
\* before digits before letters, a proper prefix before the longer string.
CollationOrder == Chars(" _-./0123456789abcdefghijklmnopqrstuvwxyz")
RECURSIVE Ranked(_)
Ranked(n) == IF n = 0 THEN <<>> ELSE Ranked(n - 1) @@ (CollationOrder[n] :> n)
RankOf == Ranked(Len(CollationOrder))
Rank(c) == IF c \in DOMAIN RankOf THEN RankOf[c] ELSE 0
LocaleBefore(a, b) ==
  \E k \in 1..(Len(b)) :
    /\ \A j \in 1..(k - 1) : j <= Len(a) /\ a[j] = b[j]
    /\ k > Len(a) \/ Rank(a[k]) < Rank(b[k])

\* String.prototype.includes: frag occurs in s at some offset, compared exactly.
Includes(s, frag) ==
  \E off \in 0..(Len(s) - Len(frag)) :
    \A j \in 1..Len(frag) : s[off + j] = frag[j]

\* path.extname ignores trailing slashes: index of the last character
\* that is not "/" (0 when there is none).
ExtEnd(p) ==
  IF \E i \in 1..Len(p) : p[i] /= "/"
    THEN CHOOSE i \in 1..Len(p) :
           /\ p[i] /= "/"
           /\ \A k \in (i+1)..Len(p) : p[k] = "/"
    ELSE 0

\* First index of the last path segment (startPart).
ExtStartPart(p) ==
  LET e == ExtEnd(p) IN
  IF \E i \in 1..e : p[i] = "/"
    THEN 1 + CHOOSE i \in 1..e : p[i] = "/" /\ \A k \in (i+1)..e : p[k] /= "/"
    ELSE 1

\* path.extname (Node): from the last "." of the last segment to its end;
\* "" when there is no dot, when the dot is the segment's first character
\* and no other dot follows a non-dot, or when the segment is "..".
Extname(p) ==
  LET e == ExtEnd(p)
      s == ExtStartPart(p)
      dots == {i \in s..e : p[i] = "."}
  IN IF e = 0 \/ dots = {} THEN <<>>
     ELSE LET d == CHOOSE i \in dots : \A k \in dots : k <= i
              \* preDotState after the backward scan reached the segment's
              \* first character: 0 the last dot is that character, 1 the
              \* first character is another dot, -1 it is not a dot
              pre == IF d = s THEN 0 ELSE IF p[s] = "." THEN 1 ELSE -1
          IN IF pre = 0 \/ (pre = 1 /\ d = e /\ d = s + 1)
               THEN <<>>
               ELSE SubSeq(p, d, e)

\* Array.prototype.some / includes over a sequence.
SeqRange(q) == {q[i] : i \in 1..Len(q)}


(***************************************************************************)
(* Rule Engine: matchesFilter.                                             *)
(***************************************************************************)
HasList(match, key) == key \in DOMAIN match /\ Len(match[key]) > 0

\* Variant: path fragments and extensions compared without lower-casing
\* the filter's side.
MatchesFilterExact(event, match) ==
  LET normalizedPath == ToLowerCase(event.path) IN
  IF /\ HasList(match, "pathExcludes")
     /\ \E exc \in SeqRange(match.pathExcludes) : Includes(normalizedPath, exc)
    THEN FALSE
  ELSE IF /\ HasList(match, "pathIncludes")
          /\ ~ \E inc \in SeqRange(match.pathIncludes) : Includes(normalizedPath, inc)
    THEN FALSE
  ELSE IF /\ HasList(match, "extensions")
          /\ ToLowerCase(Extname(event.path)) \notin SeqRange(match.extensions)
    THEN FALSE
  ELSE IF /\ HasList(match, "eventTypes")
          /\ event.type \notin SeqRange(match.eventTypes)
    THEN FALSE
  ELSE TRUE

\* RuleEngine.matchesFilter: the four checks in the code's order, each an
\* early return.
MatchesFilter(event, match) ==
  LET normalizedPath == ToLowerCase(event.path) IN
  IF /\ HasList(match, "pathExcludes")
     /\ \E exc \in SeqRange(match.pathExcludes) :
          Includes(normalizedPath, ToLowerCase(exc))
    THEN FALSE
  ELSE IF /\ HasList(match, "pathIncludes")
          /\ ~ \E inc \in SeqRange(match.pathIncludes) :
                 Includes(normalizedPath, ToLowerCase(inc))
    THEN FALSE
  ELSE IF /\ HasList(match, "extensions")
          /\ ToLowerCase(Extname(event.path))
               \notin {ToLowerCase(ext) : ext \in SeqRange(match.extensions)}
    THEN FALSE
  ELSE IF /\ HasList(match, "eventTypes")
          /\ event.type \notin SeqRange(match.eventTypes)
    THEN FALSE
  ELSE TRUE

(***************************************************************************)
(* State.                                                                  *)
(***************************************************************************)
VARIABLES
  pc,               \* daemon life cycle: "boot", "init", "running", "exited", "stopped"
  platform,         \* process.platform
  rules,            \* RuleStore.data.rules
  nextId,           \* number of ids generateId has handed out
  saves,            \* the saveQueue promise chain: the last settled save, then the unsettled ones
  saveSeq,          \* number of save tasks ever queued
  dbFile,           \* the file at dbPath
  backupFile,       \* the file at the corrupt-backup path init copies to
  lastOp,           \* the store operation whose promise settled last
  opCount,          \* updateRule/deleteRule calls made
  restarts,         \* process restarts so far
  faults,           \* file operations that have failed so far
  now,              \* Date.now()
  scenario,         \* what the environment does: the rules and patches callers submit,
                    \* the events the watcher delivers, and how many of each
  stats,            \* RuleEngine.stats
  recentMatches,    \* RuleEngine.recentMatches
  thresholdWindows, \* RuleEngine.thresholdWindows
  calls,            \* evaluateEvent calls, in call order
  returned,         \* what the evaluateEvent call that finished last gave its caller
  eventCount,       \* events delivered
  pushed,           \* history: matches pushed to recentMatches since startup
  recorded,         \* history: matchCount increments made by recordMatch since startup
  added,            \* history: the matching semantics each rule id was added with
  evalLog,          \* history: per rule id, the threshold evaluations since its last fire
  bootLog,          \* history: what the last init could not load, and the rule list the
                    \* process before it ended with
  api               \* the API server: the POST /rules request in progress or answered last

storeVars == <<pc, platform, rules, nextId, saves, saveSeq, dbFile, backupFile, lastOp, opCount, restarts, faults>>
engineVars == <<stats, recentMatches, thresholdWindows, calls, returned, eventCount>>
histVars == <<pushed, recorded, added, evalLog, bootLog>>
vars == <<storeVars, engineVars, histVars, now, scenario, api>>

\* RuleStore.SCHEMA_VERSION
SCHEMA_VERSION == 2

\* delete obj[key]
Without(obj, key) == [k \in DOMAIN obj \ {key} |-> obj[k]]

\* obj[key] = value on a JavaScript object: the key is added when absent.
Put(obj, key, value) ==
  [k \in DOMAIN obj \cup {key} |-> IF k = key THEN value ELSE obj[k]]

(***************************************************************************)
(* Rule Store: the file and its serialization.                             *)
(***************************************************************************)
NoFile == [kind |-> "absent", rules |-> <<>>]
PartialFile == [kind |-> "partial", rules |-> <<>>]
NoDoc == [kind |-> "none", rules |-> <<>>]

\* JSON.stringify(this.data, null, 2): the document {version, rules}.
JsonStringify(ruleList) == [kind |-> "doc", version |-> SCHEMA_VERSION, rules |-> ruleList]

\* JSON values that are not strings, where a string is expected: the
\* number 5 and null.
JsonNumber == "<number 5>"
JsonNull == "<null>"

\* typeof obj[key] === 'string'; undefined when the key is absent.
TypeofString(obj, key) == key \in DOMAIN obj /\ obj[key] \notin {JsonNumber, JsonNull}

\* typeof obj[key] === 'number'; the numeric fields are numbers or absent.
TypeofNumber(obj, key) == key \in DOMAIN obj

\* RuleStore.isRuleSafe on a parsed record.
IsRuleSafe(rule) ==
  \* an id, where there is one, is a string
  IF "id" \notin DOMAIN rule \/ ~TypeofString(rule, "name") THEN FALSE
  ELSE IF "type" \notin DOMAIN rule \/ rule.type \notin {"pattern", "threshold"} THEN FALSE
  ELSE IF "match" \notin DOMAIN rule THEN FALSE
  ELSE IF rule.type = "threshold"
            /\ (~TypeofNumber(rule, "windowSeconds") \/ ~TypeofNumber(rule, "count"))
    THEN FALSE
  ELSE TRUE

\* Variant: one unsafe record makes the load keep nothing.
LoadRulesAllOrNothing(file, current) ==
  IF file.kind = "absent" THEN current
  ELSE IF file.kind = "doc" /\ \A i \in 1..Len(file.rules) : IsRuleSafe(file.rules[i])
    THEN file.rules
  ELSE <<>>

\* RuleStore.init, the load: the rules kept from the file's content; a file
\* that does not parse gives the empty list.
LoadRules(file, current) ==
  IF file.kind = "absent" THEN current
  ELSE IF file.kind = "doc" THEN SelectSeq(file.rules, IsRuleSafe)
  ELSE <<>>

(***************************************************************************)
(* Rule Store: the save queue.                                             *)
(* A save task is [id, st, serialized, ran, op, call, rule, patch]:        *)
(*   st  "queued"    chained, waiting for the previous save to settle      *)
(*       "writing"   writeFile(tempPath) in flight                         *)
(*       "renaming"  rename(tempPath, dbPath) in flight                    *)
(*       "copying"   win32 fallback, copyFile(tempPath, dbPath) in flight  *)
(*       "unlinking" win32 fallback, unlink(tempPath) in flight            *)
(*       "cleanup"   error path, unlink(tempPath) in flight                *)
(*       "ok", "failed"  settled                                           *)
(*   op, call, rule, patch  the operation awaiting it: its name, the       *)
(*       evaluateEvent call of a recordMatch (0 otherwise), the rule id    *)
(*       and updateRule's updates object                                   *)
(***************************************************************************)
Settled(task) == task.st \in {"ok", "failed"}
InFlight(task) == task.st \in {"writing", "renaming", "copying", "unlinking", "cleanup"}

\* saveQueue = Promise.resolve()
ResolvedPromise ==
  [id |-> 0, st |-> "ok", serialized |-> NoDoc, ran |-> FALSE, op |-> "none",
   call |-> 0, rule |-> 0, patch |-> <<>>]

\* Variant: the task does not wait for the previous save.
PreviousSaveUnchained(prev) == "fulfilled"

\* Variant: without the catch a failed previous save rejects the chain.
PreviousSaveUncaught(prev) ==
  IF prev.st = "failed" THEN "rejected" ELSE IF prev.st = "ok" THEN "fulfilled" ELSE "pending"

\* previousSave = this.saveQueue.catch(() => undefined), as seen by the
\* task chained on it: pending until the previous save settles, then
\* fulfilled whether that save succeeded or failed.
PreviousSave(prev) == IF Settled(prev) THEN "fulfilled" ELSE "pending"

\* RuleStore.save, the synchronous part: chain a task on saveQueue.
Enqueue(queue, id, op, call, rule, patch) ==
  Append(queue, [id |-> id, st |-> "queued", serialized |-> NoDoc, ran |-> FALSE,
                 op |-> op, call |-> call, rule |-> rule, patch |-> patch])

\* Settled saves that no unsettled save is chained on are dropped; the last
\* settled one before the first unsettled save stays (it is saveQueue, or
\* the promise the next task waits on).
RECURSIVE Prune(_)
Prune(queue) ==
  IF Len(queue) >= 2 /\ Settled(queue[1]) /\ Settled(queue[2])
    THEN Prune(Tail(queue))
    ELSE queue

\* The POST /rules handler after `await this.ruleEngine.addRule(...)`: it
\* answers 201 with the rule, or 500 from its catch when the save rejected.
SettleRequest(request, task, outcome) ==
  LET Awaits(r) == r.step = "addRule" /\ r.save = task.id
      Answer(r) ==
        [step |-> "answered", served |-> r.served + 1, body |-> r.body,
         status |-> IF outcome = "ok" THEN 201 ELSE 500,
         error |-> IF outcome = "ok" THEN "" ELSE "Internal server error"]
  IN IF Awaits(request) THEN Answer(request)
     ELSE IF request.step = "serving"
       THEN [request EXCEPT !.requests =
               [k \in DOMAIN request.requests |->
                  IF Awaits(request.requests[k]) THEN Answer(request.requests[k])
                  ELSE request.requests[k]]]
     ELSE request

\* The caller's continuation after `await this.saveQueue` settles at task.
SettleCall(cs, task, outcome) ==
  IF task.op = "recordMatch" /\ task.call \in 1..Len(cs) /\ cs[task.call].pc = "awaiting"
    THEN [cs EXCEPT ![task.call].pc = IF outcome = "ok" THEN "resumeOk" ELSE "resumeFail"]
    ELSE cs

\* A save settles: its task, the caller awaiting it, and (for init's save)
\* the daemon's start.
SettleSave(i, outcome) ==
  LET task == saves[i] IN
  /\ saves' = Prune([saves EXCEPT ![i].st = outcome, ![i].serialized = NoDoc,
                                  ![i].patch = <<>>])
  /\ calls' = SettleCall(calls, task, outcome)
  /\ api' = SettleRequest(api, task, outcome)
  /\ lastOp' = IF task.op = "recordMatch" THEN lastOp
               ELSE [op |-> task.op, save |-> task.id,
                     result |-> IF outcome = "ok" THEN "resolved" ELSE "rejected"]
  /\ pc' = IF task.op = "init"
             THEN (IF outcome = "ok" THEN "running" ELSE "exited")
             ELSE pc

engineUnchanged == UNCHANGED <<stats, recentMatches, thresholdWindows, returned, eventCount, pushed, recorded, evalLog>>

\* What no step of a save touches.
saveFrame ==
  /\ UNCHANGED <<platform, rules, nextId, saveSeq, opCount, restarts, backupFile, bootLog, now, scenario, added>>
  /\ engineUnchanged

\* A file operation fails.
Fault == faults < MaxFaults /\ faults' = faults + 1

\* The then-callback of save starts: it runs once previousSave is
\* fulfilled, serializes this.data as it is now and starts writeFile.  On a
\* rejected previousSave the chained promise rejects without running it.
SaveStart ==
  \E i \in 2..Len(saves) :
    /\ saves[i].st = "queued"
    /\ PreviousSave(saves[i-1]) /= "pending"
    /\ IF PreviousSave(saves[i-1]) = "fulfilled"
         THEN /\ saves' = [saves EXCEPT ![i].st = "writing", ![i].ran = TRUE,
                                        ![i].serialized = JsonStringify(rules)]
              /\ UNCHANGED <<calls, lastOp, pc, api>>
         ELSE SettleSave(i, "failed")
    /\ UNCHANGED <<dbFile, faults>>
    /\ saveFrame

\* await writeFile(tempPath, serialized)
SaveWriteFile ==
  \E i \in 1..Len(saves) :
    /\ saves[i].st = "writing"
    /\ \/ saves' = [saves EXCEPT ![i].st = "renaming"] /\ UNCHANGED faults
       \/ saves' = [saves EXCEPT ![i].st = "cleanup"] /\ Fault
    /\ UNCHANGED <<calls, lastOp, pc, api, dbFile>>
    /\ saveFrame

\* The error codes rename may fail with.
RenameErrors == {"EPERM", "EBUSY", "EEXIST", "ENOSPC"}

\* The catch around rename: on win32 with EEXIST/EPERM/EBUSY the copy
\* fallback starts, any other error is rethrown.
AfterRenameError(os, code) ==
  IF os = "win32" /\ code \in {"EEXIST", "EPERM", "EBUSY"} THEN "copying" ELSE "cleanup"

\* await rename(tempPath, dbPath): on success the target is the new
\* document.
SaveRename ==
  \E i \in 1..Len(saves) :
    /\ saves[i].st = "renaming"
    /\ \/ /\ dbFile' = saves[i].serialized
          /\ SettleSave(i, "ok")
          /\ UNCHANGED faults
       \/ /\ \E code \in RenameErrors :
               saves' = [saves EXCEPT ![i].st = AfterRenameError(platform, code)]
          /\ Fault
          /\ UNCHANGED <<dbFile, calls, lastOp, pc, api>>
    /\ saveFrame

\* What a copyFile that did not complete leaves at the destination: the
\* old content (it failed before opening it), nothing (the destination was
\* removed after the error) or a part of the new content.
CopyRemains(old) == {old, NoFile, PartialFile}

\* await copyFile(tempPath, dbPath), which is not atomic.
SaveCopyFile ==
  \E i \in 1..Len(saves) :
    /\ saves[i].st = "copying"
    /\ \/ /\ dbFile' = saves[i].serialized
          /\ saves' = [saves EXCEPT ![i].st = "unlinking"]
          /\ UNCHANGED faults
       \/ /\ dbFile' \in CopyRemains(dbFile)
          /\ saves' = [saves EXCEPT ![i].st = "cleanup"]
          /\ Fault
    /\ UNCHANGED <<calls, lastOp, pc, api>>
    /\ saveFrame

\* await unlink(tempPath) after the copy: a failure is thrown into the
\* outer catch.
SaveUnlink ==
  \E i \in 1..Len(saves) :
    /\ saves[i].st = "unlinking"
    /\ \/ /\ SettleSave(i, "ok")
          /\ UNCHANGED faults
       \/ /\ saves' = [saves EXCEPT ![i].st = "cleanup"]
          /\ Fault
          /\ UNCHANGED <<calls, lastOp, pc, api>>
    /\ UNCHANGED dbFile
    /\ saveFrame

\* The outer catch: unlink(tempPath), its own failure ignored, then the
\* error is rethrown and the save rejects.
SaveCleanup ==
  \E i \in 1..Len(saves) :
    /\ saves[i].st = "cleanup"
    /\ SettleSave(i, "failed")
    /\ UNCHANGED <<dbFile, faults>>
    /\ saveFrame

(***************************************************************************)
(* Rule Store: operations.                                                 *)
(***************************************************************************)
\* RuleStore.init, called by the daemon's start before anything else: load
\* the file, then save.  When the file exists and readFile or JSON.parse
\* throws, the file is copied to the backup path (a failure of the copy is
\* only logged) and the store starts empty.
StoreInit ==
  /\ pc = "boot"
  /\ \/ /\ dbFile.kind \in {"absent", "doc"}
        /\ rules' = LoadRules(dbFile, rules)
        /\ bootLog' = [bootLog EXCEPT !.unloaded = NoFile]
        /\ UNCHANGED <<backupFile, faults>>
     \/ /\ \/ dbFile.kind = "partial" /\ UNCHANGED faults
           \/ dbFile.kind = "doc" /\ Fault
        /\ rules' = <<>>
        /\ bootLog' = [bootLog EXCEPT !.unloaded = dbFile]
        /\ backupFile' = dbFile
     \/ /\ dbFile.kind /= "absent" /\ Fault
        /\ rules' = <<>>
        /\ bootLog' = [bootLog EXCEPT !.unloaded = dbFile]
        /\ UNCHANGED backupFile
  /\ saves' = Enqueue(saves, saveSeq + 1, "init", 0, 0, <<>>)
  /\ saveSeq' = saveSeq + 1
  /\ pc' = "init"
  /\ UNCHANGED <<platform, nextId, dbFile, lastOp, opCount, restarts, now, scenario, api, calls, added>>
  /\ engineUnchanged

\* Variant: addRule copies windowSeconds and count whenever the compiled
\* rule has them.
NewRuleSpread(id, params, t) ==
  LET base == [id |-> id, name |-> params.name, description |-> params.description,
               enabled |-> TRUE, createdAt |-> t, matchCount |-> 0,
               type |-> params.compiled.type, match |-> params.compiled.match,
               action |-> "notify", source |-> params.source,
               originalCondition |-> params.condition]
      extra == DOMAIN params.compiled \cap {"windowSeconds", "count"}
  IN [k \in DOMAIN base \cup extra |-> IF k \in extra THEN params.compiled[k] ELSE base[k]]

\* The rule addRule builds from its parameters.
NewRule(id, params, t) ==
  LET base == [id |-> id, name |-> params.name, description |-> params.description,
               enabled |-> TRUE, createdAt |-> t, matchCount |-> 0,
               type |-> params.compiled.type, match |-> params.compiled.match,
               action |-> "notify", source |-> params.source,
               originalCondition |-> params.condition]
  IN IF params.compiled.type = "threshold"
       THEN Put(Put(base, "windowSeconds",
                    IF "windowSeconds" \in DOMAIN params.compiled
                      THEN params.compiled.windowSeconds ELSE 0),
                "count",
                IF "count" \in DOMAIN params.compiled THEN params.compiled.count ELSE 0)
       ELSE base

\* The fields that decide what a rule matches.
Semantics(rule) ==
  [k \in DOMAIN rule \cap {"id", "type", "match", "windowSeconds", "count"} |-> rule[k]]

\* The keys updateRule copies from the updates object.
AllowedKeys == {"name", "description", "enabled"}

\* Variant: every key of the updates object is copied (Object.assign).
AssignUpdates(rule, updates) ==
  [k \in DOMAIN rule \cup DOMAIN updates |-> IF k \in DOMAIN updates THEN updates[k] ELSE rule[k]]

\* Variant: the rule is left as it is until the save is done.
KeepRule(rule, updates) == rule

\* RuleStore.updateRule, the loop over the allowed keys.
ApplyUpdates(rule, updates) ==
  [k \in DOMAIN rule \cup (AllowedKeys \cap DOMAIN updates) |->
     IF k \in AllowedKeys /\ k \in DOMAIN updates THEN updates[k] ELSE rule[k]]

\* Array.prototype.findIndex on the rule list (0 for -1).
FindIndex(ruleList, id) ==
  IF \E i \in 1..Len(ruleList) : ruleList[i].id = id
    THEN CHOOSE i \in 1..Len(ruleList) :
           ruleList[i].id = id /\ \A k \in 1..(i-1) : ruleList[k].id /= id
    ELSE 0

\* Array.prototype.splice(index, 1).
RemoveAt(q, i) == SubSeq(q, 1, i - 1) \o SubSeq(q, i + 1, Len(q))

(***************************************************************************)
(* Rule Store: duplicate detection.                                        *)
(***************************************************************************)
MatchKeys == {"pathIncludes", "pathExcludes", "extensions", "eventTypes"}

\* Array.prototype.sort with localeCompare over the distinct values of a Set.
RECURSIVE SortedSeq(_)
SortedSeq(set) ==
  IF set = {} THEN <<>>
  ELSE LET least == CHOOSE x \in set : \A y \in set \ {x} : LocaleBefore(x, y)
       IN <<least>> \o SortedSeq(set \ {least})

\* normalizeArray(values).map(...).filter(...): trimmed, lower-cased, empty
\* strings dropped.
NormalizedValues(values) ==
  SelectSeq([i \in 1..Len(values) |-> ToLowerCase(Trim(values[i]))], LAMBDA v : Len(v) > 0)

\* Variant: normalizeArray without the sort.
DistinctInGivenOrder(values) ==
  LET n == NormalizedValues(values)
      firsts == {i \in 1..Len(n) : \A j \in 1..(i - 1) : n[j] /= n[i]}
  IN [k \in 1..Cardinality(firsts) |->
        n[CHOOSE i \in firsts : Cardinality({j \in firsts : j <= i}) = k]]

\* normalizeArray on a list that is there: Array.from(new Set(normalized))
\* sorted.  An empty result stands for undefined.
NormalizeArray(values) == SortedSeq(SeqRange(NormalizedValues(values)))

\* The match member of the normalized object: a key whose normalizeArray is
\* undefined is left out by JSON.stringify.
NormalizedMatch(match) ==
  [k \in {key \in MatchKeys \cap DOMAIN match : NormalizeArray(match[key]) /= <<>>} |->
     NormalizeArray(match[k])]

\* value ?? null, as JSON.stringify prints it: <<>> for null.
OrNull(obj, key) == IF key \in DOMAIN obj THEN <<obj[key]>> ELSE <<>>

\* RuleStore.ruleSignatureFromCompiled: the content of the JSON text.
RuleSignatureFromCompiled(compiled) ==
  [type |-> compiled.type,
   match |-> NormalizedMatch(compiled.match),
   windowSeconds |-> OrNull(compiled, "windowSeconds"),
   count |-> OrNull(compiled, "count")]

\* RuleStore.ruleSignatureFromRule: windowSeconds and count are read from
\* a threshold rule only.
RuleSignatureFromRule(rule) ==
  LET read == IF rule.type = "threshold" THEN DOMAIN rule \cap {"windowSeconds", "count"} ELSE {}
  IN RuleSignatureFromCompiled(
       [k \in {"type", "match"} \cup read |-> rule[k]])

NoRule == [found |-> FALSE]
Found(rule) == [found |-> TRUE, rule |-> rule]

\* rule.originalCondition ? rule.originalCondition.trim().toLowerCase() : ''
ExistingCondition(rule) ==
  IF "originalCondition" \in DOMAIN rule THEN ToLowerCase(Trim(rule.originalCondition)) ELSE <<>>

\* Variant: duplicates are recognised by signature only.
FindDuplicateBySignature(ruleList, condition, compiled) ==
  LET hits == {i \in 1..Len(ruleList) :
                 RuleSignatureFromRule(ruleList[i]) = RuleSignatureFromCompiled(compiled)}
  IN IF hits = {} THEN NoRule
     ELSE Found(ruleList[CHOOSE i \in hits : \A j \in hits : i <= j])

\* RuleStore.findDuplicateRule: Array.prototype.find, or null.
FindDuplicateRule(ruleList, condition, compiled) ==
  LET normalizedCondition == ToLowerCase(Trim(condition))
      compiledSignature == RuleSignatureFromCompiled(compiled)
      hits == {i \in 1..Len(ruleList) :
                 \/ /\ ExistingCondition(ruleList[i]) /= <<>>
                    /\ ExistingCondition(ruleList[i]) = normalizedCondition
                 \/ RuleSignatureFromRule(ruleList[i]) = compiledSignature}
  IN IF hits = {} THEN NoRule
     ELSE Found(ruleList[CHOOSE i \in hits : \A j \in hits : i <= j])

(***************************************************************************)
(* Intent extraction.                                                      *)
(***************************************************************************)
\* The character at position i, "" outside the text.
At(text, i) == IF i \in 1..Len(text) THEN text[i] ELSE ""

DigitChars == SeqRange(Chars("0123456789"))
AlnumChars == SeqRange(Chars("abcdefghijklmnopqrstuvwxyz")) \cup DigitChars
\* \w on lower-case text
WordChars == AlnumChars \cup {"_"}
\* [a-z0-9_.-]
PathChars == WordChars \cup {".", "-"}
\* [\\/]
Separators == {"/", "\\"}
\* \s
SpaceChars == {" "}

\* \b in front of position i.
WordBoundary(text, i) == (At(text, i - 1) \in WordChars) /= (At(text, i) \in WordChars)

\* The literal lit stands at position i.
LiteralAt(text, i, lit) ==
  i + Len(lit) - 1 <= Len(text) /\ SubSeq(text, i, i + Len(lit) - 1) = lit

\* The position after the longest run of characters of class from i on.
RECURSIVE RunEnd(_, _, _)
RunEnd(text, i, class) == IF At(text, i) \in class THEN RunEnd(text, i + 1, class) ELSE i

\* /\b(w1|w2|...)\b/.test(text)
Saw(text, words) ==
  \E i \in 1..Len(text), w \in words :
    WordBoundary(text, i) /\ LiteralAt(text, i, w) /\ WordBoundary(text, i + Len(w))

\* Set.prototype.add on a Set kept in insertion order.
SetAdd(set, v) == IF v \in SeqRange(set) THEN set ELSE Append(set, v)
RECURSIVE SetAddAll(_, _)
SetAddAll(set, values) ==
  IF values = <<>> THEN set ELSE SetAddAll(SetAdd(set, Head(values)), Tail(values))

Words(list) == {Chars(w) : w \in list}
DeleteWords == Words({"delete", "deleted", "deleting", "remove", "removed", "unlink"})
CreateWords == Words({"create", "created", "creating", "creates", "add", "added", "new"})
ModifyWords == Words({"modify", "modified", "modifying", "update", "updated", "updating",
                      "edit", "edited", "editing"})
ChangeWords == Words({"change", "changed", "changes", "changing"})

EVENT_ORDER == <<Chars("created"), Chars("modified"), Chars("deleted")>>

\* The eventTypes Set after the four tests, in the order of its adds.
AddedEventTypes(text) ==
  LET sawDelete == Saw(text, DeleteWords)
      sawCreate == Saw(text, CreateWords)
      sawModify == Saw(text, ModifyWords)
      sawChange == Saw(text, ChangeWords)
      named == (IF sawDelete THEN <<Chars("deleted")>> ELSE <<>>)
               \o (IF sawCreate THEN <<Chars("created")>> ELSE <<>>)
               \o (IF sawModify THEN <<Chars("modified")>> ELSE <<>>)
  IN IF ~sawChange THEN named
     ELSE IF ~sawDelete /\ ~sawCreate /\ ~sawModify
       THEN SetAdd(SetAdd(named, Chars("created")), Chars("modified"))
     ELSE IF Chars("modified") \notin SeqRange(named) THEN SetAdd(named, Chars("modified"))
     ELSE named

\* Variant: Array.from(eventTypes), the order of the adds.
IntentEventTypesAsAdded(text) == AddedEventTypes(text)

\* The event types extractIntent returns: EVENT_ORDER filtered by the Set.
IntentEventTypes(text) ==
  LET eventTypes == SeqRange(AddedEventTypes(text)) IN
  SelectSeq(EVENT_ORDER, LAMBDA e : e \in eventTypes)

\* /\.[a-z0-9]{1,6}\b/ matches at position i up to (not including) the
\* position returned, 0 when it does not match: the run of letters and
\* digits after the dot has to end within six characters at a non-word
\* character.
ExtensionEnd(text, i) ==
  LET end == RunEnd(text, i + 1, AlnumChars) IN
  IF At(text, i) = "." /\ end - (i + 1) \in 1..6 /\ At(text, end) \notin WordChars
    THEN end ELSE 0

\* text.matchAll(/\.[a-z0-9]{1,6}\b/g) from position i on, added to a Set.
RECURSIVE ExtensionMatches(_, _, _)
ExtensionMatches(text, i, found) ==
  IF i > Len(text) THEN found
  ELSE IF ExtensionEnd(text, i) /= 0
    THEN ExtensionMatches(text, ExtensionEnd(text, i),
                          SetAdd(found, SubSeq(text, i, ExtensionEnd(text, i) - 1)))
    ELSE ExtensionMatches(text, i + 1, found)

Language(key, exts) == [key |-> Chars(key), exts |-> exts]
\* LANGUAGE_MATCHERS with the LANGUAGE_EXTENSIONS of each key.
LANGUAGE_MATCHERS ==
  <<Language("typescript", <<Chars(".ts"), Chars(".tsx")>>),
    Language("javascript", <<Chars(".js"), Chars(".jsx")>>),
    Language("python", <<Chars(".py")>>),
    Language("markdown", <<Chars(".md"), Chars(".markdown")>>),
    Language("json", <<Chars(".json")>>),
    Language("yaml", <<Chars(".yml"), Chars(".yaml")>>),
    Language("yml", <<Chars(".yml"), Chars(".yaml")>>),
    Language("html", <<Chars(".html"), Chars(".htm")>>),
    Language("css", <<Chars(".css")>>),
    Language("text", <<Chars(".txt")>>),
    Language("csv", <<Chars(".csv")>>),
    Language("java", <<Chars(".java")>>),
    Language("rust", <<Chars(".rs")>>),
    Language("go", <<Chars(".go")>>),
    Language("kotlin", <<Chars(".kt"), Chars(".kts")>>),
    Language("csharp", <<Chars(".cs")>>),
    Language("c#", <<Chars(".cs")>>),
    Language("cplusplus", <<Chars(".cpp"), Chars(".hpp"), Chars(".h")>>),
    Language("c++", <<Chars(".cpp"), Chars(".hpp"), Chars(".h")>>),
    Language("c", <<Chars(".c"), Chars(".h")>>)>>

\* The loop over LANGUAGE_MATCHERS from matcher k on.
RECURSIVE LanguageExtensions(_, _, _)
LanguageExtensions(text, k, found) ==
  IF k > Len(LANGUAGE_MATCHERS) THEN found
  ELSE LanguageExtensions(text, k + 1,
         IF Saw(text, {LANGUAGE_MATCHERS[k].key})
           THEN SetAddAll(found, LANGUAGE_MATCHERS[k].exts) ELSE found)

\* The extensions extractIntent collects: the ones written in the text,
\* and those of the languages named only when none is written.
IntentExtensions(text) ==
  LET written == ExtensionMatches(text, 1, <<>>) IN
  IF written = <<>> THEN LanguageExtensions(text, 1, <<>>) ELSE written

STOPWORDS ==
  Words({"the", "a", "an", "this", "that", "these", "those", "inside", "within", "under",
         "from", "in", "on", "at", "to", "of", "for", "with", "without", "folder",
         "directory", "dir", "root", "path", "file", "files", "any"})

\* token.replace(/[\\/]+$/, '')
RECURSIVE StripSeparators(_)
StripSeparators(token) ==
  IF token /= <<>> /\ token[Len(token)] \in Separators
    THEN StripSeparators(SubSeq(token, 1, Len(token) - 1)) ELSE token

isStopwordToken(token) ==
  LET cleaned == ToLowerCase(StripSeparators(token)) IN
  \/ cleaned = <<>>
  \/ \A i \in 1..Len(cleaned) : cleaned[i] \in DigitChars
  \/ cleaned \in STOPWORDS

normalizePathToken(token) ==
  LET normalized == [i \in 1..Len(token) |-> IF token[i] = "\\" THEN "/" ELSE token[i]] IN
  IF normalized /= <<>> /\ normalized[Len(normalized)] = "/"
    THEN normalized ELSE Append(normalized, "/")

\* pathIncludes.add(normalizePathToken(token)) unless token is a stopword.
AddPath(found, token) ==
  IF isStopwordToken(token) THEN found ELSE SetAdd(found, normalizePathToken(token))

\* text.matchAll(/([a-z0-9_.-]+[\\/])/gi) from position i on: every longest
\* run of path characters that a separator follows, with that separator.
RECURSIVE PathMatches(_, _, _)
PathMatches(text, i, found) ==
  IF i > Len(text) THEN found
  ELSE LET end == RunEnd(text, i, PathChars) IN
       IF end > i /\ At(text, end) \in Separators
         THEN PathMatches(text, end + 1, AddPath(found, SubSeq(text, i, end)))
         ELSE PathMatches(text, IF end > i THEN end ELSE i + 1, found)

NoHit == [matched |-> FALSE]
Hit(from, to) == [matched |-> TRUE, from |-> from, to |-> to]

\* ([a-z0-9_.-]+)\b at position q: the longest run of path characters from
\* q that ends at a word boundary.
Capture(text, q) ==
  LET ends == {e \in (q + 1)..RunEnd(text, q, PathChars) : WordBoundary(text, e)} IN
  IF ends = {} THEN NoHit ELSE Hit(q, CHOOSE e \in ends : \A f \in ends : f <= e)

\* The first of the matches that matched, in the order the regular
\* expression tries its alternatives.
RECURSIVE FirstMatch(_)
FirstMatch(attempts) ==
  IF attempts = <<>> THEN NoHit
  ELSE IF Head(attempts).matched THEN Head(attempts) ELSE FirstMatch(Tail(attempts))

PhraseKeywords == <<Chars("in"), Chars("from"), Chars("under"), Chars("inside"), Chars("within")>>
Articles == <<Chars("the"), Chars("a"), Chars("an")>>

\* (?:the|a|an)?\s*([a-z0-9_.-]+)\b at position p: with each article that
\* stands there, in turn, and then without one.
AfterKeyword(text, p) ==
  FirstMatch([k \in 1..(Len(Articles) + 1) |->
                IF k > Len(Articles) THEN Capture(text, p)
                ELSE IF LiteralAt(text, p, Articles[k])
                  THEN Capture(text, RunEnd(text, p + Len(Articles[k]), SpaceChars))
                  ELSE NoHit])

\* /\b(in|from|under|inside|within)\s+(?:the|a|an)?\s*([a-z0-9_.-]+)\b/
\* matched at position i: the capture of group 2.
PhraseAt(text, i) ==
  IF ~WordBoundary(text, i) THEN NoHit
  ELSE FirstMatch([k \in 1..Len(PhraseKeywords) |->
         LET after == i + Len(PhraseKeywords[k]) IN
         IF LiteralAt(text, i, PhraseKeywords[k]) /\ At(text, after) \in SpaceChars
           THEN AfterKeyword(text, RunEnd(text, after, SpaceChars))
           ELSE NoHit])

\* text.matchAll of the phrase expression from position i on.
RECURSIVE PhraseMatches(_, _, _)
PhraseMatches(text, i, found) ==
  IF i > Len(text) THEN found
  ELSE LET hit == PhraseAt(text, i) IN
       IF hit.matched
         THEN PhraseMatches(text, hit.to, AddPath(found, SubSeq(text, hit.from, hit.to - 1)))
         ELSE PhraseMatches(text, i + 1, found)

IntentPathIncludes(text) == PhraseMatches(text, 1, PathMatches(text, 1, <<>>))

\* text.match(pattern) of an expression without the g flag: the match at
\* the leftmost position that has one.
Leftmost(text, MatchAt(_, _)) ==
  LET hits == {i \in 1..Len(text) : MatchAt(text, i).matched} IN
  IF hits = {} THEN NoHit ELSE MatchAt(text, CHOOSE i \in hits : \A j \in hits : i <= j)

\* Number(digits)
DigitValue(c) == CHOOSE n \in 0..9 : Chars("0123456789")[n + 1] = c
RECURSIVE ToNumber(_)
ToNumber(digits) ==
  IF digits = <<>> THEN 0
  ELSE 10 * ToNumber(SubSeq(digits, 1, Len(digits) - 1)) + DigitValue(digits[Len(digits)])

\* The words of list in turn from position i, \s+ between them: the
\* position after the last one, 0 when they do not stand there.
RECURSIVE WordsEnd(_, _, _)
WordsEnd(text, i, list) ==
  IF ~LiteralAt(text, i, Head(list)) THEN 0
  ELSE LET after == i + Len(Head(list)) IN
       IF Len(list) = 1 THEN after
       ELSE IF At(text, after) \in SpaceChars
         THEN WordsEnd(text, RunEnd(text, after, SpaceChars), Tail(list))
         ELSE 0

\* (\d+) at position d: the whole run of digits.
DigitsAt(text, d) ==
  IF RunEnd(text, d, DigitChars) > d THEN Hit(d, RunEnd(text, d, DigitChars)) ELSE NoHit

AtLeastPhrases ==
  {<<Chars("at"), Chars("least")>>, <<Chars("no"), Chars("less"), Chars("than")>>, <<Chars(">=")>>}

\* /\b(?:at\s+least|no\s+less\s+than|>=)\s*(\d+)\b/ matched at i.
AtLeastAt(text, i) ==
  IF \E phrase \in AtLeastPhrases :
       /\ WordBoundary(text, i)
       /\ WordsEnd(text, i, phrase) /= 0
       /\ LET digits == DigitsAt(text, RunEnd(text, WordsEnd(text, i, phrase), SpaceChars)) IN
          digits.matched /\ WordBoundary(text, digits.to)
    THEN LET phrase == CHOOSE ph \in AtLeastPhrases : WordsEnd(text, i, ph) /= 0 IN
         DigitsAt(text, RunEnd(text, WordsEnd(text, i, phrase), SpaceChars))
    ELSE NoHit

OrMorePhrases ==
  {<<Chars("or"), Chars("more")>>, <<Chars("or"), Chars("greater")>>,
   <<Chars("or"), Chars("above")>>, <<Chars("or"), Chars("over")>>, <<Chars("+")>>}
CountedUnits == Words({"file", "files", "event", "events", "change", "changes"})
OrMoreUnits == CountedUnits \cup Words({"time", "times"}) \cup {<<>>}

\* /\b(\d+)\s*(?:or\s+more|or\s+greater|or\s+above|or\s+over|\+)\s*
\*  (?:files?|events?|changes?|times?)?\b/ matched at i.
OrMoreAt(text, i) ==
  LET digits == DigitsAt(text, i) IN
  IF /\ WordBoundary(text, i)
     /\ digits.matched
     /\ \E phrase \in OrMorePhrases :
          LET after == WordsEnd(text, RunEnd(text, digits.to, SpaceChars), phrase) IN
          /\ after /= 0
          /\ \E t \in after..RunEnd(text, after, SpaceChars), unit \in OrMoreUnits :
               LiteralAt(text, t, unit) /\ WordBoundary(text, t + Len(unit))
    THEN digits ELSE NoHit

\* /\b(\d+)\s+(?:files?|events?|changes?)\b/ matched at i.
CountedAt(text, i) ==
  LET digits == DigitsAt(text, i) IN
  IF /\ WordBoundary(text, i)
     /\ digits.matched
     /\ At(text, digits.to) \in SpaceChars
     /\ \E unit \in CountedUnits :
          LET t == RunEnd(text, digits.to, SpaceChars) IN
          LiteralAt(text, t, unit) /\ WordBoundary(text, t + Len(unit))
    THEN digits ELSE NoHit

\* An optional number: no key when undefined.
Undefined == <<>>
Defined(key, n) == [k \in {key} |-> n]

\* parseThresholdCount: the first of the three patterns whose match is a
\* positive number.
parseThresholdCount(text) ==
  LET matches == <<Leftmost(text, AtLeastAt), Leftmost(text, OrMoreAt), Leftmost(text, CountedAt)>>
      counts == [k \in 1..3 |-> IF matches[k].matched
                                   THEN ToNumber(SubSeq(text, matches[k].from, matches[k].to - 1))
                                   ELSE 0]
      positive == SelectSeq(counts, LAMBDA n : n > 0)
  IN IF positive = <<>> THEN Undefined ELSE Defined("count", Head(positive))

WindowKeywords == Words({"within", "in", "over", "during", "for"})
SecondUnits == Words({"second", "seconds", "sec", "secs"})
MinuteUnits == Words({"minute", "minutes", "min", "mins"})
HourUnits == Words({"hour", "hours", "hr", "hrs"})

\* The unit of the window expression, with \b after it, at position t.
UnitAt(text, t, units) ==
  \E unit \in units : LiteralAt(text, t, unit) /\ WordBoundary(text, t + Len(unit))

\* /\b(?:within|in|over|during|for)\s+(\d+)\s*(seconds?|...|hrs?)\b/
\* matched at i.
WindowAt(text, i) ==
  IF /\ WordBoundary(text, i)
     /\ \E keyword \in WindowKeywords :
          LET after == i + Len(keyword) IN
          /\ LiteralAt(text, i, keyword)
          /\ At(text, after) \in SpaceChars
          /\ LET digits == DigitsAt(text, RunEnd(text, after, SpaceChars)) IN
             /\ digits.matched
             /\ UnitAt(text, RunEnd(text, digits.to, SpaceChars),
                       SecondUnits \cup MinuteUnits \cup HourUnits)
    THEN LET keyword == CHOOSE kw \in WindowKeywords :
                          LiteralAt(text, i, kw) /\ At(text, i + Len(kw)) \in SpaceChars
         IN DigitsAt(text, RunEnd(text, i + Len(keyword), SpaceChars))
    ELSE NoHit

parseWindowSeconds(text) ==
  LET match == Leftmost(text, WindowAt) IN
  IF ~match.matched THEN Undefined
  ELSE LET value == ToNumber(SubSeq(text, match.from, match.to - 1))
           unit == RunEnd(text, match.to, SpaceChars)
       IN IF value <= 0 THEN Undefined
          ELSE IF UnitAt(text, unit, HourUnits) THEN Defined("windowSeconds", value * 3600)
          ELSE IF UnitAt(text, unit, MinuteUnits) THEN Defined("windowSeconds", value * 60)
          ELSE Defined("windowSeconds", value)

\* extractIntent
ExtractIntent(condition) ==
  LET text == ToLowerCase(condition) IN
  [eventTypes |-> IntentEventTypes(text),
   extensions |-> IntentExtensions(text),
   pathIncludes |-> IntentPathIncludes(text)]
  @@ parseThresholdCount(text) @@ parseWindowSeconds(text)

\* The condition texts of the scenarios: a scope with an event, the same
\* in other letters and padded, a threshold, another scope, an exclusion, a
\* count without a window (and "ignored", which is no exclusion keyword), a
\* window without a count, and a path named twice.
ConditionTs == Chars("deleted .ts files in src")
ConditionTsLoud == Chars("  Deleted .TS files in SRC ")
ConditionPy == Chars("5 changes to python in 10 minutes")
ConditionJs == Chars("created .js files")
ConditionExcept == Chars("changes in docs/ except drafts/")
ConditionCountOnly == Chars("ignored files at least 3 times")
ConditionWindowOnly == Chars("any new file within 30 seconds")
ConditionTwice == Chars("Edits in SRC/ or under src")
ConditionJsNew == Chars("new .js files")
Conditions ==
  <<ConditionTs, ConditionTsLoud, Trim(ConditionTsLoud), ConditionPy, ConditionJs,
    ConditionExcept, ConditionCountOnly, ConditionWindowOnly, ConditionTwice,
    ConditionJsNew>>

\* extractIntent of those texts, worked out once and looked up from then on.
RECURSIVE Tabulated(_)
Tabulated(texts) ==
  IF texts = <<>> THEN <<>>
  ELSE (Head(texts) :> ExtractIntent(Head(texts))) @@ Tabulated(Tail(texts))
IntentTable == Tabulated(Conditions)
IntentOf(condition) == IntentTable[condition]

(***************************************************************************)
(* Rule Validator.                                                         *)
(***************************************************************************)
MIN_WINDOW_SECONDS == 10
MAX_WINDOW_SECONDS == 86400
MIN_THRESHOLD_COUNT == 1
MAX_THRESHOLD_COUNT == 1000

\* A ValidationError {field, message}; the message is kept by its wording
\* without the values interpolated into it.
Error(field, message) == [field |-> field, message |-> message]
TooBroad == Error("match", "Rule is too broad. Add pathIncludes or extensions to narrow scope.")

\* ext.startsWith('.')
StartsWithDot(ext) == Len(ext) > 0 /\ ext[1] = "."

\* The EventType values.
AllowedEventTypes == {Chars("created"), Chars("modified"), Chars("deleted")}

\* One error for each element of list that fails test, in list order.
ErrorsFor(list, Passes(_), error) ==
  [i \in 1..Len(SelectSeq(list, LAMBDA v : ~Passes(v))) |-> error]

\* validateMatchFilter on a match object whose members are arrays of
\* strings: the extension and event type loops.
ValidateMatchFilter(match) ==
  (IF "extensions" \in DOMAIN match
     THEN ErrorsFor(match.extensions, StartsWithDot,
                    Error("extensions", "Extension must start with \".\""))
     ELSE <<>>)
  \o (IF "eventTypes" \in DOMAIN match
        THEN ErrorsFor(match.eventTypes, LAMBDA e : e \in AllowedEventTypes,
                       Error("eventTypes", "Invalid event type"))
        ELSE <<>>)

\* Variant: the number is checked against its lower bound only.
ValidateNumberFrom(rule, key, min, max) ==
  IF key \notin DOMAIN rule THEN <<Error(key, "must be a number")>>
  ELSE IF rule[key] < min THEN <<Error(key, "must be between")>>
  ELSE <<>>

\* The checks of a threshold rule's number: a value that is no number (the
\* member is undefined) has one error, a number out of range another.
ValidateNumber(rule, key, min, max) ==
  IF key \notin DOMAIN rule THEN <<Error(key, "must be a number")>>
  ELSE IF rule[key] < min \/ rule[key] > max THEN <<Error(key, "must be between")>>
  ELSE <<>>

\* Variant: an array that is there narrows the rule, empty or not.
HasPathOrExtensionListed(match) ==
  "pathIncludes" \in DOMAIN match \/ "extensions" \in DOMAIN match

\* (match.pathIncludes && match.pathIncludes.length > 0) ||
\* (match.extensions && match.extensions.length > 0)
HasPathOrExtension(match) ==
  \/ "pathIncludes" \in DOMAIN match /\ Len(match.pathIncludes) > 0
  \/ "extensions" \in DOMAIN match /\ Len(match.extensions) > 0

Threw == [threw |-> TRUE]
Validation(errors) == [threw |-> FALSE, valid |-> errors = <<>>, errors |-> errors]

\* validateCompiledRule.  Without a match object the function reports
\* "match filter is required" and then reads rule.match.pathIncludes, which
\* throws.
ValidateCompiledRule(rule) ==
  IF "match" \notin DOMAIN rule THEN Threw
  ELSE Validation(
         (IF "type" \notin DOMAIN rule THEN <<Error("type", "Rule type is required")>> ELSE <<>>)
         \o ValidateMatchFilter(rule.match)
         \o (IF "type" \in DOMAIN rule /\ rule.type = "threshold"
               THEN ValidateNumber(rule, "windowSeconds", MIN_WINDOW_SECONDS, MAX_WINDOW_SECONDS)
                    \o ValidateNumber(rule, "count", MIN_THRESHOLD_COUNT, MAX_THRESHOLD_COUNT)
               ELSE <<>>)
         \o (IF ~HasPathOrExtension(rule.match) THEN <<TooBroad>> ELSE <<>>))

\* validateCompiledRuleWithIntent: the errors of validateCompiledRule, then
\* one error for each way the rule departs from the intent of the condition.
IncludesText(whole, part) ==
  \E i \in 1..(Len(whole) - Len(part) + 1) : SubSeq(whole, i, i + Len(part) - 1) = part
ListOf(match, key) == IF key \in DOMAIN match THEN match[key] ELSE <<>>
NumberOf(rule, key) == IF key \in DOMAIN rule THEN <<rule[key]>> ELSE <<>>
IsThreshold(rule) == "type" \in DOMAIN rule /\ rule.type = "threshold"
IntentErrors(rule, intent) ==
  LET thresholdRequested == "count" \in DOMAIN intent /\ "windowSeconds" \in DOMAIN intent
      eventTypes == ListOf(rule.match, "eventTypes")
      extensions == ListOf(rule.match, "extensions")
      pathIncludes == ListOf(rule.match, "pathIncludes")
      SameText(a, b) == ToLowerCase(a) = ToLowerCase(b)
      Within(whole, part) == IncludesText(ToLowerCase(whole), ToLowerCase(part))
      Some(list, Test(_)) == \E i \in 1..Len(list) : Test(list[i])
      When(cond, field, message) == IF cond THEN <<Error(field, message)>> ELSE <<>>
  IN When(thresholdRequested /\ ~IsThreshold(rule), "type",
          "Rule mentions a count and time window but compiled rule is not threshold.")
     \o When(thresholdRequested /\ IsThreshold(rule)
               /\ NumberOf(rule, "count") /= <<intent.count>>,
             "count", "Rule mentions count but compiled count differs.")
     \o When(thresholdRequested /\ IsThreshold(rule)
               /\ NumberOf(rule, "windowSeconds") /= <<intent.windowSeconds>>,
             "windowSeconds", "Rule mentions window but compiled window differs.")
     \o When(intent.eventTypes /= <<>> /\ eventTypes = <<>>,
             "eventTypes", "Rule mentions specific events but compiled rule has none.")
     \o When(intent.eventTypes /= <<>> /\ eventTypes /= <<>>
               /\ Some(eventTypes, LAMBDA e : e \notin SeqRange(intent.eventTypes)),
             "eventTypes", "Rule mentions events but compiled includes others.")
     \o When(intent.extensions /= <<>>
               /\ Some(intent.extensions,
                       LAMBDA ext : ~Some(extensions, LAMBDA value : SameText(value, ext))),
             "extensions", "Rule mentions extensions but compiled rule omitted them.")
     \o When(intent.extensions /= <<>>
               /\ Some(extensions,
                       LAMBDA ext : ~Some(intent.extensions, LAMBDA value : SameText(value, ext))),
             "extensions", "Compiled rule added unexpected extensions.")
     \o When(intent.pathIncludes /= <<>>
               /\ Some(intent.pathIncludes,
                       LAMBDA inc : ~Some(pathIncludes, LAMBDA value : Within(value, inc))),
             "pathIncludes", "Rule mentions paths but compiled rule omitted them.")
     \o When(intent.pathIncludes /= <<>>
               /\ Some(pathIncludes,
                       LAMBDA inc : ~Some(intent.pathIncludes, LAMBDA value : Within(inc, value))),
             "pathIncludes", "Compiled rule added unexpected paths.")

ValidateCompiledRuleWithIntent(rule, condition) ==
  LET base == ValidateCompiledRule(rule) IN
  IF base.threw THEN Threw
  ELSE Validation(base.errors \o IntentErrors(rule, IntentOf(condition)))

(***************************************************************************)
(* Rule Compiler.                                                          *)
(***************************************************************************)
\* The values of the JSON document the model answers with.
Str(chars) == [string |-> chars]
Num(n) == [number |-> n]
Null == [null |-> TRUE]
Arr(items) == [array |-> items]
Obj(fields) == [object |-> fields]
IsStr(v) == DOMAIN v = {"string"}
IsArr(v) == DOMAIN v = {"array"}
IsObj(v) == DOMAIN v = {"object"}

\* What llmClient.generate and the JSON extraction give parseResponse: the
\* call failed, the reply carried no response text (generate returns
\* data.response as it is), the response holds no {...}, what it holds
\* does not parse even after the repairs, or it parses to an object.
GenerateFailed == [outcome |-> "failed"]
NoText == [outcome |-> "no text"]
NoJson == [outcome |-> "no json"]
BadJson == [outcome |-> "invalid json"]
Json(fields) == [outcome |-> "json", parsed |-> fields]

Reject(reason) == [reject |-> [reason |-> reason]]
Compiled(rule) == [rule |-> rule]

\* normalizeRuleType: "pattern", "threshold" or null (<<>>).
normalizeRuleType(parsed) ==
  IF "type" \in DOMAIN parsed /\ IsStr(parsed.type)
     /\ Trim(ToLowerCase(parsed.type.string)) \in Words({"pattern", "threshold"})
    THEN (IF Trim(ToLowerCase(parsed.type.string)) = Chars("pattern")
            THEN <<"pattern">> ELSE <<"threshold">>)
    ELSE <<>>

\* .filter(typeof p === 'string').map(trim).filter(length > 0)
TrimmedStrings(items) ==
  LET strings == SelectSeq(items, IsStr)
      trimmed == [i \in 1..Len(strings) |-> Trim(strings[i].string)]
  IN SelectSeq(trimmed, LAMBDA p : Len(p) > 0)

CreatedWords == Words({"add", "added", "create", "created", "new"})
ModifiedWords == Words({"change", "changed", "modify", "modified", "update", "updated"})
DeletedWords == Words({"delete", "deleted", "remove", "removed", "unlink"})

\* normalizeEventType: the EventType, or null (<<>>).
normalizeEventType(input) ==
  LET value == Trim(ToLowerCase(input)) IN
  IF value \in CreatedWords THEN Chars("created")
  ELSE IF value \in ModifiedWords THEN Chars("modified")
  ELSE IF value \in DeletedWords THEN Chars("deleted")
  ELSE <<>>

\* The member of the filter normalizeMatchFilter builds from an array.
NormalizedMember(key, items) ==
  IF key = "extensions"
    THEN LET trimmed == TrimmedStrings(items) IN
         [i \in 1..Len(trimmed) |-> IF trimmed[i][1] = "." THEN trimmed[i] ELSE <<".">> \o trimmed[i]]
  ELSE IF key = "eventTypes"
    THEN LET strings == SelectSeq(items, IsStr)
             events == [i \in 1..Len(strings) |-> normalizeEventType(strings[i].string)]
         IN SelectSeq(events, LAMBDA e : e /= <<>>)
  ELSE TrimmedStrings(items)

\* normalizeMatchFilter
normalizeMatchFilter(parsed) ==
  IF "match" \in DOMAIN parsed /\ IsObj(parsed.match)
    THEN LET match == parsed.match.object
             kept == {key \in MatchKeys \cap DOMAIN match :
                        /\ IsArr(match[key])
                        /\ key = "eventTypes" =>
                             NormalizedMember(key, match[key].array) /= <<>>}
         IN [key \in kept |-> NormalizedMember(key, match[key].array)]
    ELSE <<>>

\* Number(value) when it is finite: of a number, of null, of a string of
\* digits or of white space; undefined (no key) otherwise.
FiniteNumber(parsed, key) ==
  IF key \notin DOMAIN parsed THEN Undefined
  ELSE LET value == parsed[key] IN
       IF DOMAIN value = {"number"} THEN Defined(key, value.number)
       ELSE IF DOMAIN value = {"null"} THEN Defined(key, 0)
       ELSE IF IsStr(value) /\ \A i \in 1..Len(Trim(value.string)) :
                                   Trim(value.string)[i] \in DigitChars
         THEN Defined(key, ToNumber(Trim(value.string)))
       ELSE Undefined

\* parseResponse; extractJsonSnippet throws on a response that is not a
\* string.
ParseResponse(response) ==
  IF response.outcome = "no text" THEN Threw
  ELSE IF response.outcome = "no json" THEN Reject(Chars("Invalid response"))
  ELSE IF response.outcome = "invalid json" THEN Reject(Chars("Invalid JSON"))
  ELSE LET parsed == response.parsed
           type == normalizeRuleType(parsed)
       IN IF "reject" \in DOMAIN parsed
            THEN Reject(IF IsObj(parsed.reject) /\ "reason" \in DOMAIN parsed.reject.object
                           /\ IsStr(parsed.reject.object.reason)
                          THEN parsed.reject.object.reason.string ELSE Chars("Rejected"))
          ELSE IF type = <<>> THEN Reject(Chars("Invalid rule type"))
          ELSE Compiled([type |-> type[1], match |-> normalizeMatchFilter(parsed)]
                        @@ (IF type[1] = "threshold"
                              THEN FiniteNumber(parsed, "windowSeconds") @@ FiniteNumber(parsed, "count")
                              ELSE <<>>))

\* Array.from(new Set(values.map(trim).filter(length > 0)))
UniqueTrimmed(values) ==
  SetAddAll(<<>>, SelectSeq([i \in 1..Len(values) |-> Trim(values[i])], LAMBDA v : Len(v) > 0))

ExcludeWords == Words({"exclude", "excluding", "except", "ignore", "ignoring"})
\* /(exclude|excluding|except|ignore|ignoring)\b/i.test(condition)
MentionsExclusion(condition) ==
  LET text == ToLowerCase(condition) IN
  \E i \in 1..Len(text), w \in ExcludeWords :
    LiteralAt(text, i, w) /\ WordBoundary(text, i + Len(w))

\* Variant: the model's extensions and paths stay when the condition names
\* none.
AlignedScopeKept(match, key, wanted) ==
  IF wanted /= <<>> THEN Put(match, key, wanted) ELSE match

\* The overwrite-or-strip of match.extensions and match.pathIncludes.
AlignedScope(match, key, wanted) ==
  IF wanted /= <<>> THEN Put(match, key, wanted)
  ELSE IF key \in DOMAIN match /\ Len(match[key]) > 0 THEN Without(match, key)
  ELSE match

\* Variant: the type and the numbers the model emitted are kept.
AlignedKindKept(rule, intent) == rule

\* The type, count and windowSeconds after alignment.
AlignedKind(rule, intent) ==
  IF "count" \in DOMAIN intent /\ "windowSeconds" \in DOMAIN intent
    THEN Put(Put(Put(rule, "type", "threshold"), "count", intent.count),
             "windowSeconds", intent.windowSeconds)
  ELSE IF rule.type = "threshold"
    THEN [k \in DOMAIN rule \ {"count", "windowSeconds"} |->
            IF k = "type" THEN "pattern" ELSE rule[k]]
  ELSE rule

\* alignRuleToIntent, given the intent extracted from the condition.
AlignedTo(intent, condition, rule) ==
  LET events == IF intent.eventTypes /= <<>>
                  THEN Put(rule.match, "eventTypes", intent.eventTypes) ELSE rule.match
      extensions == AlignedScope(events, "extensions", intent.extensions)
      paths == AlignedScope(extensions, "pathIncludes", UniqueTrimmed(intent.pathIncludes))
      match == IF ~MentionsExclusion(condition) /\ "pathExcludes" \in DOMAIN paths
                  /\ Len(paths.pathExcludes) > 0
                 THEN Without(paths, "pathExcludes") ELSE paths
  IN Put(AlignedKind(rule, intent), "match", match)

\* Variant: the rule is returned as the model emitted it.
AlignRuleToIntentSkipped(condition, rule) == rule

AlignRuleToIntent(condition, rule) == AlignedTo(IntentOf(condition), condition, rule)

\* Variant: compile without its catch.
CompileUncaught(condition, response) ==
  IF response.outcome = "failed" THEN Threw
  ELSE LET parsed == ParseResponse(response) IN
       IF "threw" \in DOMAIN parsed THEN Threw
       ELSE IF "reject" \in DOMAIN parsed THEN parsed
       ELSE Compiled(AlignRuleToIntent(condition, parsed.rule))

\* compile: the result carries a rule or a reject; whatever generate or
\* parseResponse throws is caught and answered with a reject.
Compile(condition, response) ==
  IF response.outcome = "failed" THEN Reject(Chars("LLM unavailable"))
  ELSE LET parsed == ParseResponse(response) IN
       IF "threw" \in DOMAIN parsed THEN Reject(Chars("LLM unavailable"))
       ELSE IF "reject" \in DOMAIN parsed THEN parsed
       ELSE Compiled(AlignRuleToIntent(condition, parsed.rule))

(***************************************************************************)
(* Inputs.                                                                 *)
(***************************************************************************)
PathA == <<"a", "/", "x", ".", "t">>
PathB == <<"b", ".", "T">>

MatchT == [extensions |-> << <<".", "t">> >>]
MatchA == [pathIncludes |-> << <<"A", "/">> >>, eventTypes |-> <<"created">>]

\* The rules callers add: a pattern rule and threshold rules.
PatternA ==
  [name |-> "n1", description |-> "d", condition |-> "c1", source |-> "llm",
   compiled |-> [type |-> "pattern", match |-> MatchA]]
ThresholdT2 ==
  [name |-> "n1", description |-> "d", condition |-> "c2", source |-> "llm",
   compiled |-> [type |-> "threshold", match |-> MatchT, windowSeconds |-> 10, count |-> 2]]
ThresholdT1 ==
  [name |-> "n1", description |-> "d", condition |-> "c3", source |-> "llm",
   compiled |-> [type |-> "threshold", match |-> MatchT, windowSeconds |-> 10, count |-> 1]]
ThresholdT3 ==
  [name |-> "n1", description |-> "d", condition |-> "c6", source |-> "llm",
   compiled |-> [type |-> "threshold", match |-> MatchT, windowSeconds |-> 10, count |-> 3]]
AddChoices == {PatternA, ThresholdT2, ThresholdT1}

\* Compiled rules as a model can emit them: a pattern rule with a window
\* and a count, a threshold rule with neither.
PatternExtra ==
  [name |-> "n1", description |-> "d", condition |-> "c4", source |-> "llm",
   compiled |-> [type |-> "pattern", match |-> MatchA, windowSeconds |-> 10, count |-> 3]]
ThresholdBare ==
  [name |-> "n1", description |-> "d", condition |-> "c5", source |-> "llm",
   compiled |-> [type |-> "threshold", match |-> MatchT]]

\* Condition texts and compiled rules as POST /rules receives them.  The
\* second of each pair is the first in another presentation.
CompiledTs ==
  [type |-> "pattern",
   match |-> [pathIncludes |-> <<Chars("src/")>>, extensions |-> <<Chars(".ts")>>,
              eventTypes |-> <<Chars("deleted")>>]]
CompiledTsLoud ==
  [type |-> "pattern",
   match |-> [pathIncludes |-> <<Chars(" SRC/"), Chars("src/")>>,
              pathExcludes |-> <<Chars(" ")>>, extensions |-> <<Chars(".TS ")>>,
              eventTypes |-> <<Chars("deleted")>>]]
CompiledPy ==
  [type |-> "threshold",
   match |-> [extensions |-> <<Chars(".py")>>,
              eventTypes |-> <<Chars("created"), Chars("modified")>>],
   windowSeconds |-> 600, count |-> 5]
CompiledJs ==
  [type |-> "pattern",
   match |-> [extensions |-> <<Chars(".js")>>, eventTypes |-> <<Chars("created")>>]]
Submitted(condition, compiled) ==
  [name |-> "n1", description |-> "d", condition |-> condition, source |-> "llm",
   compiled |-> compiled]
ConditionChoices == {ConditionTs, ConditionTsLoud, ConditionPy, ConditionJs}
CompiledChoices == {CompiledTs, CompiledTsLoud, CompiledPy, CompiledJs}

\* The bodies PATCH /rules/:id passes to updateRule, some with keys that
\* are not updatable.
UpdateForeignKeys ==
  [name |-> "n2", match |-> MatchA, type |-> "pattern", count |-> 7,
   windowSeconds |-> 99, id |-> 9]
UpdateChoices ==
  {[enabled |-> FALSE], [enabled |-> TRUE], UpdateForeignKeys, [match |-> MatchT, count |-> 7]}


NoOp == [op |-> "none", save |-> 0, result |-> "none"]

\* Date.now(): a reading is never before the last one and advances by
\* whole ticks.
ClockReads(last) ==
  {t \in {last + k * TickMs : k \in 0..scenario.ticks} : t <= scenario.ticks * TickMs}

\* Operations in progress: store operations awaiting their save and
\* evaluateEvent calls that have not returned.
InFlightOps ==
  Cardinality({i \in 1..Len(saves) : ~Settled(saves[i]) /\ saves[i].op /= "recordMatch"})
    + Cardinality({c \in 1..Len(calls) : calls[c].pc /= "done"})

\* RuleStore.addRule
AddRule ==
  /\ pc = "running"
  /\ InFlightOps < MaxInFlight
  /\ nextId < scenario.rules
  /\ \E params \in scenario.addable :
       LET rule == NewRule(nextId + 1, params, now) IN
       /\ rules' = Append(rules, rule)
       /\ added' = Append(added, Semantics(rule))
  /\ nextId' = nextId + 1
  /\ saves' = Enqueue(saves, saveSeq + 1, "addRule", 0, nextId + 1, <<>>)
  /\ saveSeq' = saveSeq + 1
  /\ UNCHANGED <<pc, platform, dbFile, lastOp, opCount, restarts, backupFile, bootLog, faults, now, scenario, api, calls>>
  /\ engineUnchanged

\* RuleStore.updateRule
UpdateRule ==
  /\ pc = "running"
  /\ InFlightOps < MaxInFlight
  /\ opCount < scenario.ops
  /\ opCount' = opCount + 1
  /\ \E id \in 1..(nextId + 1), updates \in scenario.patches :
       LET index == FindIndex(rules, id)
           changed == AllowedKeys \cap DOMAIN updates /= {}
       IN IF index /= 0 /\ changed
            THEN /\ rules' = [rules EXCEPT ![index] = ApplyUpdates(@, updates)]
                 /\ saves' = Enqueue(saves, saveSeq + 1, "updateRule", 0, id, updates)
                 /\ saveSeq' = saveSeq + 1
                 /\ UNCHANGED lastOp
            ELSE /\ lastOp' = [op |-> "updateRule", save |-> 0, result |-> "resolved"]
                 /\ UNCHANGED <<rules, saves, saveSeq>>
  /\ UNCHANGED <<pc, platform, nextId, dbFile, restarts, backupFile, bootLog, faults, now, scenario, api, calls, added>>
  /\ engineUnchanged

\* Variant: deleteRule without its save.
DeleteRuleUnsaved ==
  /\ pc = "running"
  /\ InFlightOps < MaxInFlight
  /\ opCount < scenario.ops
  /\ opCount' = opCount + 1
  /\ \E id \in 1..(nextId + 1) :
       LET index == FindIndex(rules, id) IN
       /\ rules' = IF index /= 0 THEN RemoveAt(rules, index) ELSE rules
       /\ lastOp' = [op |-> "deleteRule", save |-> 0, result |-> "resolved"]
       /\ UNCHANGED <<saves, saveSeq>>
  /\ UNCHANGED <<pc, platform, nextId, dbFile, restarts, backupFile, bootLog, faults, now, scenario, api, calls, added>>
  /\ engineUnchanged

\* RuleStore.deleteRule
DeleteRule ==
  /\ pc = "running"
  /\ InFlightOps < MaxInFlight
  /\ opCount < scenario.ops
  /\ opCount' = opCount + 1
  /\ \E id \in 1..(nextId + 1) :
       LET index == FindIndex(rules, id) IN
       IF index /= 0
         THEN /\ rules' = RemoveAt(rules, index)
              /\ saves' = Enqueue(saves, saveSeq + 1, "deleteRule", 0, id, <<>>)
              /\ saveSeq' = saveSeq + 1
              /\ UNCHANGED lastOp
         ELSE /\ lastOp' = [op |-> "deleteRule", save |-> 0, result |-> "resolved"]
              /\ UNCHANGED <<rules, saves, saveSeq>>
  /\ UNCHANGED <<pc, platform, nextId, dbFile, restarts, backupFile, bootLog, faults, now, scenario, api, calls, added>>
  /\ engineUnchanged

\* RuleStore.recordMatch, the synchronous part, on a rule list: the rule
\* found by id gets lastMatched and one more matchCount.
StoreRecordMatch(ruleList, ruleId, t) ==
  LET index == FindIndex(ruleList, ruleId) IN
  IF index = 0 THEN ruleList
  ELSE [ruleList EXCEPT ![index] =
          Put(Put(@, "lastMatched", t), "matchCount", @.matchCount + 1)]

(***************************************************************************)
(* Rule Engine.                                                            *)
(***************************************************************************)
WindowIds == 1..MaxRules

NoMatch == [ruleId |-> 0]
NoEvent == [type |-> "none", path |-> <<>>]
DoneCall == [pc |-> "done", event |-> NoEvent, rules |-> <<>>, i |-> 0,
             matches |-> <<>>, match |-> NoMatch]
NoReturn == [call |-> 0, status |-> "none", event |-> NoEvent, rules |-> <<>>, matches |-> <<>>]
NoLog == [ts |-> <<>>, fired |-> FALSE, count |-> 0, windowSeconds |-> 0]

\* Variant: now is pushed and no timestamp is dropped.
FilteredNone(timestamps, t, windowMs) == Append(timestamps, t)

\* RuleEngine.evaluateRule, the threshold branch's window update: push
\* now, keep the timestamps with now - t <= windowMs.
Filtered(timestamps, t, windowMs) ==
  LET Keep(x) == t - x <= windowMs IN SelectSeq(Append(timestamps, t), Keep)

\* The threshold branch's test on the pruned window.
ThresholdReached(filtered, rule) == Len(filtered) >= rule.count

\* Variant: the window is kept when the rule fires.
WindowAfterKept(filtered, fired) == filtered

\* The window kept for the rule after the evaluation: reset on a fire.
WindowAfter(filtered, fired) == IF fired THEN <<>> ELSE filtered

\* RuleEngine.evaluateRule: [match, windows], match = NoMatch for null.
EvaluateRule(event, rule, windows, t) ==
  IF ~MatchesFilter(event, rule.match)
    THEN [match |-> NoMatch, windows |-> windows]
  ELSE IF rule.type = "pattern"
    THEN [match |-> [ruleId |-> rule.id, ruleName |-> rule.name, ruleType |-> rule.type,
                     timestamp |-> t, path |-> event.path, eventType |-> event.type],
          windows |-> windows]
  ELSE IF rule.type = "threshold"
    THEN LET filtered == Filtered(windows[rule.id], t, rule.windowSeconds * 1000)
             fired == ThresholdReached(filtered, rule)
         IN [match |-> IF fired
                         THEN [ruleId |-> rule.id, ruleName |-> rule.name,
                               ruleType |-> rule.type, timestamp |-> t,
                               count |-> Len(filtered),
                               windowSeconds |-> rule.windowSeconds]
                         ELSE NoMatch,
             windows |-> [windows EXCEPT ![rule.id] = WindowAfter(filtered, fired)]]
  ELSE [match |-> NoMatch, windows |-> windows]

\* History: a threshold rule's filter-matching evaluation is logged with
\* every timestamp recorded for the rule since its last fire, none pruned.
LogEval(log, event, rule, t, fired) ==
  IF rule.type = "threshold" /\ MatchesFilter(event, rule.match)
    THEN [log EXCEPT ![rule.id] =
            [ts |-> Append(IF @.fired THEN <<>> ELSE @.ts, t), fired |-> fired,
             count |-> rule.count, windowSeconds |-> rule.windowSeconds]]
    ELSE log

\* The for loop of evaluateEvent from rule i of the snapshot up to the
\* first rule that fires: [i, match, windows, log], i = Len + 1 and
\* match = NoMatch when no further rule fires.
RECURSIVE Scan(_, _, _, _, _, _)
Scan(event, snapshot, i, windows, log, t) ==
  IF i > Len(snapshot)
    THEN [i |-> i, match |-> NoMatch, windows |-> windows, log |-> log]
    ELSE LET r == EvaluateRule(event, snapshot[i], windows, t)
             fired == r.match /= NoMatch
             log2 == LogEval(log, event, snapshot[i], t, fired)
         IN IF fired
              THEN [i |-> i, match |-> r.match, windows |-> r.windows, log |-> log2]
              ELSE Scan(event, snapshot, i + 1, r.windows, log2, t)

\* Variant: every rule is returned, enabled or not.
GetEveryRule(ruleList) == ruleList

\* RuleStore.getEnabledRules
GetEnabledRules(ruleList) == LET Enabled(r) == r.enabled IN SelectSeq(ruleList, Enabled)

\* RuleEngine.recordMatch: push, and shift when over the limit.
PushRecent(ring, match) ==
  LET pushedRing == Append(ring, match) IN
  IF Len(pushedRing) > RecentMatchLimit THEN Tail(pushedRing) ELSE pushedRing

\* evaluateEvent runs its loop from rule `from` until it awaits
\* recordMatch for a rule that fired, or returns its matches.
RunLoop(c, from, st) ==
  \E t \in ClockReads(now) :
  LET call == calls[c]
      r == Scan(call.event, call.rules, from, thresholdWindows, evalLog, t)
  IN /\ now' = t
     /\ thresholdWindows' = r.windows
     /\ evalLog' = r.log
     /\ IF r.match = NoMatch
          THEN /\ calls' = [calls EXCEPT ![c] = DoneCall]
               /\ returned' = [call |-> c, status |-> "returned", event |-> call.event,
                               rules |-> call.rules, matches |-> call.matches]
               /\ stats' = st
               /\ UNCHANGED <<rules, saves, saveSeq, recorded>>
          ELSE LET found == FindIndex(rules, r.match.ruleId) /= 0 IN
               /\ stats' = [st EXCEPT !.matches = @ + 1]
               /\ rules' = StoreRecordMatch(rules, r.match.ruleId, t)
               /\ recorded' = IF found THEN recorded + 1 ELSE recorded
               /\ saves' = IF found THEN Enqueue(saves, saveSeq + 1, "recordMatch", c, r.match.ruleId, <<>>)
                           ELSE saves
               /\ saveSeq' = IF found THEN saveSeq + 1 ELSE saveSeq
               /\ calls' = [calls EXCEPT ![c].i = r.i, ![c].match = r.match,
                                         ![c].matches = Append(@, r.match),
                                         ![c].pc = IF found THEN "awaiting" ELSE "resumeOk"]
               /\ UNCHANGED returned

\* evaluateEvent is called with a file event: eventsObserved++, then the
\* path validation is awaited.
EvalStart ==
  /\ pc = "running"
  /\ InFlightOps < MaxInFlight
  /\ eventCount < scenario.events
  /\ eventCount' = eventCount + 1
  /\ \E event \in scenario.watched :
       calls' = Append(calls, [pc |-> "validating", event |-> event, rules |-> <<>>,
                               i |-> 0, matches |-> <<>>, match |-> NoMatch])
  /\ stats' = [stats EXCEPT !.eventsObserved = @ + 1]
  /\ UNCHANGED <<storeVars, recentMatches, thresholdWindows, returned, histVars, now, scenario, api>>

\* validateFilePath resolved: an invalid path returns []; otherwise
\* getEnabledRules is called, which takes its snapshot at once.
EvalValidated ==
  \E c \in 1..Len(calls) :
    /\ calls[c].pc = "validating"
    /\ \/ /\ calls' = [calls EXCEPT ![c].pc = "snapshot", ![c].rules = GetEnabledRules(rules)]
          /\ UNCHANGED returned
       \/ /\ calls' = [calls EXCEPT ![c] = DoneCall]
          /\ returned' = [call |-> c, status |-> "skipped", event |-> calls[c].event,
                          rules |-> <<>>, matches |-> <<>>]
    /\ UNCHANGED <<storeVars, stats, recentMatches, thresholdWindows, eventCount, histVars, now, scenario, api>>

\* The snapshot arrived: rulesEvaluated += rules.length and the loop starts.
EvalLoop ==
  \E c \in 1..Len(calls) :
    /\ calls[c].pc = "snapshot"
    /\ RunLoop(c, 1, [stats EXCEPT !.rulesEvaluated = @ + Len(calls[c].rules)])
    /\ UNCHANGED <<pc, platform, nextId, dbFile, lastOp, opCount, restarts, backupFile, bootLog, faults, scenario, api,
                   recentMatches, eventCount, pushed, added>>

\* recordMatch resolved: the match goes to the recent matches and the loop
\* goes on with the next rule.
EvalResume ==
  \E c \in 1..Len(calls) :
    /\ calls[c].pc = "resumeOk"
    /\ recentMatches' = PushRecent(recentMatches, calls[c].match)
    /\ pushed' = pushed + 1
    /\ RunLoop(c, calls[c].i + 1, stats)
    /\ UNCHANGED <<pc, platform, nextId, dbFile, lastOp, opCount, restarts, backupFile, bootLog, faults, scenario, api,
                   eventCount, added>>

\* recordMatch rejected (its save failed): evaluateEvent rejects, and the
\* daemon's listener logs the error.
EvalFail ==
  \E c \in 1..Len(calls) :
    /\ calls[c].pc = "resumeFail"
    /\ calls' = [calls EXCEPT ![c] = DoneCall]
    /\ returned' = [call |-> c, status |-> "rejected", event |-> calls[c].event,
                    rules |-> calls[c].rules, matches |-> calls[c].matches]
    /\ UNCHANGED <<storeVars, stats, recentMatches, thresholdWindows, eventCount, histVars, now, scenario, api>>

(***************************************************************************)
(* Process life cycle.                                                     *)
(***************************************************************************)
NoStats == [eventsObserved |-> 0, rulesEvaluated |-> 0, matches |-> 0]

\* What the target file holds after the process died: a copyFile in flight
\* may have written none, some or all of the new document.
AfterCrash(file, queue) ==
  IF \E i \in 1..Len(queue) : queue[i].st = "copying"
    THEN {file, PartialFile} \cup {queue[i].serialized : i \in {k \in 1..Len(queue) : queue[k].st = "copying"}}
    ELSE {file}

\* A new process: the constructors' state.
FreshMemory ==
  /\ rules' = <<>>
  /\ saves' = <<ResolvedPromise>>
  /\ lastOp' = NoOp
  /\ stats' = NoStats
  /\ recentMatches' = <<>>
  /\ thresholdWindows' = [id \in WindowIds |-> <<>>]
  /\ calls' = <<>>
  /\ returned' = NoReturn
  /\ pushed' = 0
  /\ recorded' = 0
  /\ evalLog' = [id \in WindowIds |-> NoLog]

\* Every save the store queued has settled, the last one successfully.
Durable ==
  pc = "running" /\ Len(saves) = 1 /\ saves[1].st = "ok" /\ saves[1].id /= 0

\* The process is killed and started again.
Crash ==
  /\ pc \in {"init", "running"}
  /\ restarts < MaxRestarts
  /\ restarts' = restarts + 1
  /\ pc' = "boot"
  /\ dbFile' \in AfterCrash(dbFile, saves)
  /\ bootLog' = [bootLog EXCEPT !.previous = rules, !.durable = Durable]
  /\ FreshMemory
  /\ UNCHANGED <<platform, nextId, saveSeq, backupFile, opCount, faults, now, scenario, api, eventCount, added>>

\* SIGINT or SIGTERM: the handler stops the watcher and the API server,
\* calls ruleStore.close(), which only logs, and calls process.exit(0), all
\* without an await.  The file operation in flight ends where it is.
Shutdown ==
  /\ pc = "running"
  /\ pc' = "stopped"
  /\ dbFile' \in AfterCrash(dbFile, saves)
  /\ bootLog' = [bootLog EXCEPT !.previous = rules, !.durable = Durable]
  /\ FreshMemory
  /\ UNCHANGED <<platform, nextId, saveSeq, backupFile, opCount, restarts, faults, now,
                 scenario, api, eventCount, added>>

\* start() failed (init's save rejected) and the process exited; it is
\* started again.
Restart ==
  /\ pc = "exited"
  /\ restarts < MaxRestarts
  /\ restarts' = restarts + 1
  /\ pc' = "boot"
  /\ bootLog' = [bootLog EXCEPT !.previous = rules, !.durable = FALSE]
  /\ FreshMemory
  /\ UNCHANGED <<platform, nextId, saveSeq, dbFile, backupFile, opCount, faults, now, scenario, api, eventCount, added>>

(***************************************************************************)
(* Specifications.                                                         *)
(***************************************************************************)
\* No request has reached the API server.
NoRequest == [step |-> "idle"]

\* The state after the constructors ran, before start(), with the file a
\* previous run left at dbPath and the number of ids issued so far.
ConstructedOn(file, issued) ==
  /\ pc = "boot"
  /\ platform \in {"posix", "win32"}
  /\ rules = <<>>
  /\ nextId = issued
  /\ saves = <<ResolvedPromise>>
  /\ saveSeq = 0
  /\ dbFile = file
  /\ backupFile = NoFile
  /\ bootLog = [unloaded |-> NoFile, previous |-> <<>>, durable |-> FALSE]
  /\ api = NoRequest
  /\ lastOp = NoOp
  /\ opCount = 0
  /\ restarts = 0
  /\ faults = 0
  /\ now = 0
  /\ stats = NoStats
  /\ recentMatches = <<>>
  /\ thresholdWindows = [id \in WindowIds |-> <<>>]
  /\ calls = <<>>
  /\ returned = NoReturn
  /\ eventCount = 0
  /\ pushed = 0
  /\ recorded = 0
  /\ added = <<>>
  /\ evalLog = [id \in WindowIds |-> NoLog]

\* The state after the constructors ran on a first start: no file yet.
Constructed == ConstructedOn(NoFile, 0)

\* The engine with the store under it: a pattern and a threshold rule, one
\* event kind, rules enabled, disabled and deleted while events are
\* evaluated.
Init ==
  /\ Constructed
  /\ scenario = [addable |-> {PatternA, ThresholdT2},
                 patches |-> {[enabled |-> FALSE], UpdateForeignKeys},
                 watched |-> {[type |-> "created", path |-> PathA]},
                 rules |-> MaxRules, ops |-> MaxOps, events |-> MaxEvents, ticks |-> 0]

Next ==
  \/ StoreInit \/ AddRule \/ UpdateRule \/ DeleteRule
  \/ SaveStart \/ SaveWriteFile \/ SaveRename \/ SaveCopyFile \/ SaveUnlink \/ SaveCleanup
  \/ EvalStart \/ EvalValidated \/ EvalLoop \/ EvalResume \/ EvalFail

Spec == Init /\ [][Next]_vars

\* The rule store alone, with process crashes and restarts.
NextStore ==
  \/ StoreInit \/ AddRule \/ UpdateRule \/ DeleteRule
  \/ SaveStart \/ SaveWriteFile \/ SaveRename \/ SaveCopyFile \/ SaveUnlink \/ SaveCleanup
  \/ Crash \/ Restart

InitStore ==
  /\ Constructed
  /\ scenario = [addable |-> AddChoices, patches |-> UpdateChoices, watched |-> {},
                 rules |-> MaxRules, ops |-> MaxOps, events |-> 0, ticks |-> 0]

StoreSpec == InitStore /\ [][NextStore]_vars


\* The engine and the store across a restart: one rule that matches the
\* event, PATCH bodies that disable it or give it a number as its name.
InitRestart ==
  /\ Constructed
  /\ scenario = [addable |-> {PatternA},
                 patches |-> {[enabled |-> FALSE], [name |-> JsonNumber]},
                 watched |-> {[type |-> "created", path |-> PathA]},
                 rules |-> 1, ops |-> MaxOps, events |-> 1, ticks |-> 0]

NextRestart == Next \/ Crash \/ Restart

RestartSpec == InitRestart /\ [][NextRestart]_vars

\* The records a store file can hold: rules as the store wrote them, a
\* pattern rule carrying a count, and records isRuleSafe rejects.
StoredPattern == NewRule(1, PatternA, 0)
StoredThreshold == NewRule(2, ThresholdT2, 0)
SafeRecords == {StoredPattern, StoredThreshold, Put(StoredPattern, "count", 3)}
UnsafeRecords ==
  {Put(StoredPattern, "name", JsonNumber), Put(StoredPattern, "type", "other"),
   Without(StoredPattern, "match"), Without(StoredThreshold, "count"),
   Without(StoredThreshold, "windowSeconds"), Without(StoredThreshold, "id")}
FileRecords == SafeRecords \cup UnsafeRecords
StoredDocuments ==
  {JsonStringify(list) : list \in UNION {[1..n -> FileRecords] : n \in 0..MaxRecords}}

\* The store started on a file a previous run or an editor left behind.
InitLoad ==
  /\ \E file \in StoredDocuments : ConstructedOn(file, 2)
  /\ scenario = [addable |-> {PatternExtra, ThresholdBare},
                 patches |-> {[enabled |-> FALSE]}, watched |-> {},
                 rules |-> 3, ops |-> MaxOps, events |-> 0, ticks |-> 0]

\* RuleEngine.findDuplicateRule called on the store as it is.
FindDuplicate ==
  /\ pc = "running"
  /\ opCount < scenario.ops
  /\ opCount' = opCount + 1
  /\ \E condition \in ConditionChoices, compiled \in CompiledChoices :
       api' = [step |-> "findDuplicateRule", store |-> rules, condition |-> condition,
               compiled |-> compiled,
               result |-> FindDuplicateRule(rules, condition, compiled)]
  /\ UNCHANGED <<pc, platform, rules, nextId, saves, saveSeq, dbFile, backupFile, lastOp,
                 restarts, faults, now, scenario>>
  /\ UNCHANGED <<engineVars, histVars>>

\* The store holding rules of llm origin, some with the same condition or
\* the same compiled content, asked for duplicates.
InitDuplicate ==
  /\ Constructed
  /\ scenario = [addable |-> {Submitted(ConditionTs, CompiledTs),
                              Submitted(ConditionJs, CompiledTsLoud),
                              Submitted(ConditionTsLoud, CompiledPy),
                              Submitted(ConditionPy, CompiledPy)},
                 patches |-> {}, watched |-> {},
                 rules |-> MaxRules, ops |-> MaxOps, events |-> 0, ticks |-> 0]

NextDuplicate ==
  \/ StoreInit \/ AddRule
  \/ SaveStart \/ SaveWriteFile \/ SaveRename \/ SaveCopyFile \/ SaveUnlink \/ SaveCleanup
  \/ FindDuplicate

DuplicateSpec == InitDuplicate /\ [][NextDuplicate]_vars

\* The rule store without crashes: every file operation terminates, and a
\* promise continuation that is ready to run does run.
NextLive ==
  \/ StoreInit \/ AddRule \/ UpdateRule \/ DeleteRule
  \/ SaveStart \/ SaveWriteFile \/ SaveRename \/ SaveCopyFile \/ SaveUnlink \/ SaveCleanup

LiveSpec ==
  /\ InitStore
  /\ [][NextLive]_vars
  /\ WF_vars(SaveStart) /\ WF_vars(SaveWriteFile) /\ WF_vars(SaveRename)
  /\ WF_vars(SaveCopyFile) /\ WF_vars(SaveUnlink) /\ WF_vars(SaveCleanup)

\* The rule store with the shutdown signal arriving at any moment.
NextShutdown == NextLive \/ Shutdown

ShutdownSpec == InitStore /\ [][NextShutdown]_vars

\* The rule store started on a stored document.
LoadSpec == InitLoad /\ [][NextLive]_vars

\* Threshold rules under a burst of matching events while the clock runs.
InitThreshold ==
  /\ Constructed
  /\ scenario = [addable |-> {ThresholdT2, ThresholdT1}, patches |-> {},
                 watched |-> {[type |-> "created", path |-> PathA]},
                 rules |-> 1, ops |-> 0, events |-> MaxBurst, ticks |-> MaxTicks]

NextEvaluate ==
  \/ StoreInit \/ AddRule
  \/ SaveStart \/ SaveWriteFile \/ SaveRename \/ SaveCopyFile \/ SaveUnlink \/ SaveCleanup
  \/ EvalStart \/ EvalValidated \/ EvalLoop \/ EvalResume \/ EvalFail

ThresholdSpec == InitThreshold /\ [][NextEvaluate]_vars

\* One pattern rule and one event, drawn from the filters and events below:
\* every combination of absent, empty and non-empty constraint lists, paths
\* in either case, with and without an extension.
PathUpper == <<"A", "/", "X", ".", "T">>
PathDotFile == <<".", "t">>
PathNoExt == <<"a", "/", "x">>
PathTrailingDot == <<"x", ".">>
FilterPaths == {PathA, PathB, PathUpper, PathDotFile, PathNoExt, PathTrailingDot}
FilterEvents == {[type |-> ty, path |-> p] : ty \in {"created", "modified"}, p \in FilterPaths}

Absent == [present |-> FALSE, list |-> <<>>]
Listed(list) == [present |-> TRUE, list |-> list]
ExcludeChoices == {Absent, Listed(<<>>), Listed(<< <<"B">> >>), Listed(<< <<"n">>, <<"/", "X">> >>)}
IncludeChoices == {Absent, Listed(<<>>), Listed(<< <<"A", "/">> >>), Listed(<< <<"B">>, <<".", "t">> >>)}
ExtensionChoices == {Absent, Listed(<<>>), Listed(<< <<".", "T">> >>), Listed(<< <<".">>, <<>> >>)}
EventTypeChoices == {Absent, Listed(<<>>), Listed(<<"created">>), Listed(<<"modified", "deleted">>)}

\* A MatchFilter object with the listed keys only.
MatchFilter(exc, inc, ext, typ) ==
  LET present == [pathExcludes |-> exc, pathIncludes |-> inc,
                  extensions |-> ext, eventTypes |-> typ]
  IN [k \in {key \in DOMAIN present : present[key].present} |-> present[k].list]

FilterChoices ==
  {MatchFilter(exc, inc, ext, typ) :
     exc \in ExcludeChoices, inc \in IncludeChoices,
     ext \in ExtensionChoices, typ \in EventTypeChoices}

PatternOf(match) ==
  [name |-> "n1", description |-> "d", condition |-> "c4", source |-> "llm",
   compiled |-> [type |-> "pattern", match |-> match]]

InitFilter ==
  /\ Constructed
  /\ \E match \in FilterChoices, event \in FilterEvents :
       scenario = [addable |-> {PatternOf(match)}, patches |-> {}, watched |-> {event},
                   rules |-> 1, ops |-> 0, events |-> 1, ticks |-> 0]

FilterSpec == InitFilter /\ [][NextEvaluate]_vars

\* The watcher's debounce timers of two paths expire and emitEvent hands
\* each event to the daemon's listener, with a pattern rule and a threshold
\* rule in the store that both match both events.
InitWatch ==
  /\ Constructed
  /\ scenario = [addable |-> {PatternOf(MatchT), ThresholdT2}, patches |-> {},
                 watched |-> {[type |-> "created", path |-> PathA],
                              [type |-> "modified", path |-> PathB]},
                 rules |-> MaxRules, ops |-> 0, events |-> MaxEvents, ticks |-> 0]

WatchSpec == InitWatch /\ [][NextEvaluate]_vars

\* No evaluateEvent call is between a resolved await and its
\* continuation, which is a microtask: a request handler, run from the
\* event loop, does not start there.
HandlerCanStart ==
  \A c \in 1..Len(calls) : calls[c].pc \notin {"snapshot", "resumeOk", "resumeFail"}

\* DELETE /rules/:id: the handler calls deleteRule at once.
DeleteRequest == HandlerCanStart /\ DeleteRule

\* PATCH /rules/:id: the handler calls updateRule at once with the body.
PatchRequest == HandlerCanStart /\ UpdateRule

\* Two rules that match the event, which is evaluated while a request
\* deletes or disables one of them.
InitRemoval ==
  /\ Constructed
  /\ scenario = [addable |-> {PatternOf(MatchT), ThresholdT1},
                 patches |-> {[enabled |-> FALSE]},
                 watched |-> {[type |-> "created", path |-> PathA]},
                 rules |-> MaxRules, ops |-> MaxOps, events |-> 1, ticks |-> 0]

NextRemoval ==
  \/ StoreInit \/ AddRule \/ PatchRequest \/ DeleteRequest
  \/ SaveStart \/ SaveWriteFile \/ SaveRename \/ SaveCopyFile \/ SaveUnlink \/ SaveCleanup
  \/ EvalStart \/ EvalValidated \/ EvalLoop \/ EvalResume \/ EvalFail

RemovalSpec == InitRemoval /\ [][NextRemoval]_vars

\* A count-3 threshold rule under a stream of matching events while the
\* clock runs.
InitStream ==
  /\ Constructed
  /\ scenario = [addable |-> {ThresholdT3}, patches |-> {},
                 watched |-> {[type |-> "created", path |-> PathA]},
                 rules |-> 1, ops |-> 0, events |-> MaxStream, ticks |-> MaxTicks]

StreamSpec == InitStream /\ [][NextEvaluate]_vars

\* A pattern rule and a threshold rule under matching events while
\* requests disable and enable the rules.
InitWindow ==
  /\ Constructed
  /\ scenario = [addable |-> {PatternOf(MatchT), ThresholdT2},
                 patches |-> {[enabled |-> FALSE], [enabled |-> TRUE]},
                 watched |-> {[type |-> "created", path |-> PathA]},
                 rules |-> MaxRules, ops |-> MaxToggles, events |-> 1, ticks |-> 0]

NextWindow == NextEvaluate \/ PatchRequest

WindowSpec == InitWindow /\ [][NextWindow]_vars

\* Variant: the array itself is returned.
GetRecentMatchesItself(ring) == [shared |-> TRUE, items |-> ring]

\* RuleEngine.getRecentMatches: [...this.recentMatches], a new array with
\* the same items.
GetRecentMatches(ring) == [shared |-> FALSE, items |-> ring]

\* A caller (GET /matches) asks for the recent matches.
ReadRecent ==
  /\ pc = "running"
  /\ api.step = "idle"
  /\ api' = [step |-> "getRecentMatches", result |-> GetRecentMatches(recentMatches)]
  /\ UNCHANGED <<storeVars, engineVars, histVars, now, scenario>>

\* The caller removes the first item of the array it was given; when that
\* array is the engine's, the engine's buffer loses it.
CallerShifts ==
  /\ api.step = "getRecentMatches"
  /\ api.result.items /= <<>>
  /\ api' = [step |-> "shifted", result |-> [api.result EXCEPT !.items = Tail(@)]]
  /\ recentMatches' = IF api.result.shared /\ recentMatches /= <<>>
                        THEN Tail(recentMatches) ELSE recentMatches
  /\ UNCHANGED <<storeVars, stats, thresholdWindows, calls, returned, eventCount, histVars,
                 now, scenario>>

\* A burst of events on two paths with one rule that matches them all,
\* and a caller reading the recent matches.
InitRecent ==
  /\ Constructed
  /\ scenario = [addable |-> {PatternOf(MatchT)}, patches |-> {},
                 watched |-> {[type |-> "created", path |-> PathA],
                              [type |-> "modified", path |-> PathB]},
                 rules |-> 1, ops |-> 0, events |-> MaxBurst, ticks |-> 0]

NextRecent == NextEvaluate \/ ReadRecent \/ CallerShifts

RecentSpec == InitRecent /\ [][NextRecent]_vars

\* Variant: start() registers the listener only when checkHealth found the
\* model.
ListenerRegisteredIfAvailable(llmAvailable) == llmAvailable

\* start() after init: checkHealth is awaited and an unavailable model is
\* logged; fileWatcher.onEvent(listener) is called in either case.
ListenerRegistered(llmAvailable) == TRUE

\* emitEvent hands an event to the registered listener, which calls
\* evaluateEvent.
Listen == ListenerRegistered(scenario.llm) /\ EvalStart

\* The daemon started with the model available or not: two rules, events
\* that match both and an event that matches neither.
InitLlm ==
  /\ Constructed
  /\ \E llmAvailable \in BOOLEAN :
       scenario = [addable |-> {PatternOf(MatchT), ThresholdT1}, patches |-> {},
                   watched |-> {[type |-> "created", path |-> PathA],
                                [type |-> "modified", path |-> PathNoExt]},
                   rules |-> MaxRules, ops |-> 0, events |-> MaxEvents, ticks |-> 0,
                   llm |-> llmAvailable]

NextLlm ==
  \/ StoreInit \/ AddRule
  \/ SaveStart \/ SaveWriteFile \/ SaveRename \/ SaveCopyFile \/ SaveUnlink \/ SaveCleanup
  \/ Listen \/ EvalValidated \/ EvalLoop \/ EvalResume \/ EvalFail

LlmSpec == InitLlm /\ [][NextLlm]_vars

\* Compiled rules for the signature: match arrays that are absent, empty,
\* blank, or hold the same values in different presentations, under every
\* combination of type, window and count.
ValuesAB == <<Chars("a/"), Chars("b")>>
ValuesABShuffled == <<Chars(" B "), Chars("A/"), Chars("b")>>
ValuesB == <<Chars("b")>>
ValuesBlank == <<Chars(" ")>>
BaseLists == {Absent, Listed(ValuesBlank), Listed(ValuesAB), Listed(ValuesB)}
AllLists == BaseLists \cup {Listed(<<>>), Listed(ValuesABShuffled)}
KindChoices ==
  {[type |-> "pattern"], [type |-> "pattern", count |-> 5],
   [type |-> "threshold", windowSeconds |-> 10, count |-> 5],
   [type |-> "threshold", windowSeconds |-> 60, count |-> 5],
   [type |-> "threshold", windowSeconds |-> 10]}
CompiledOf(kind, match) == Put(kind, "match", match)

\* The same filter with one array replaced.
Replaced(lists, key, list) == [lists EXCEPT ![key] = list]
FilterOf(lists) ==
  MatchFilter(lists.pathExcludes, lists.pathIncludes, lists.extensions, lists.eventTypes)

\* ruleSignatureFromCompiled applied to two compiled rules.
Sign ==
  /\ api.step = "idle"
  /\ \E lists \in [MatchKeys -> BaseLists], key \in MatchKeys, list \in AllLists,
        kind \in KindChoices, other \in KindChoices :
       LET left == CompiledOf(kind, FilterOf(lists))
           right == CompiledOf(other, FilterOf(Replaced(lists, key, list)))
       IN api' = [step |-> "signature", left |-> left, right |-> right,
                  signatures |-> <<RuleSignatureFromCompiled(left),
                                   RuleSignatureFromCompiled(right)>>]
  /\ UNCHANGED <<storeVars, engineVars, histVars, now, scenario>>

\* Compiled rules for the validator: every combination of a type that is
\* missing, known or unknown, match arrays that are absent, empty or hold
\* good or bad values, and numbers inside, on and outside the bounds.
TypeChoices == {<<>>, [type |-> "pattern"], [type |-> "threshold"], [type |-> "other"]}
WindowChoices == {<<>>} \cup {[windowSeconds |-> n] : n \in {5, 10, 86400, 86401}}
CountChoices == {<<>>} \cup {[count |-> n] : n \in {0, 1, 1000, 1001}}
ValidatedFilters ==
  {MatchFilter(exc, inc, ext, typ) :
     exc \in {Absent, Listed(<<Chars("x/")>>)},
     inc \in {Absent, Listed(<<>>), Listed(<<Chars("src/")>>), Listed(<<Chars("")>>)},
     ext \in {Absent, Listed(<<>>), Listed(<<Chars(".ts")>>), Listed(<<Chars("ts"), Chars(".js")>>)},
     typ \in {Absent, Listed(<<>>), Listed(<<Chars("created")>>), Listed(<<Chars("renamed")>>)}}
ValidatedRules ==
  {type @@ window @@ count @@ match :
     type \in TypeChoices, window \in WindowChoices, count \in CountChoices,
     match \in {<<>>} \cup {[match |-> f] : f \in ValidatedFilters}}

\* validateCompiledRule applied to a compiled rule.
Validate ==
  /\ api.step = "idle"
  /\ \E rule \in ValidatedRules :
       api' = [step |-> "validateCompiledRule", rule |-> rule,
               result |-> ValidateCompiledRule(rule)]
  /\ UNCHANGED <<storeVars, engineVars, histVars, now, scenario>>

NoCalls == [addable |-> {}, patches |-> {}, watched |-> {},
            rules |-> 0, ops |-> 0, events |-> 0, ticks |-> 0]

InitSignature == Constructed /\ scenario = NoCalls

SignatureSpec == InitSignature /\ [][Sign]_vars

ValidateSpec == InitSignature /\ [][Validate]_vars

\* addRule applied to a compiled rule validateCompiledRule accepts, then
\* findDuplicateRule applied to the same compiled rule under a condition
\* text that may differ.
StoreCompiled ==
  /\ api.step = "idle"
  /\ \E rule \in ValidatedRules, condition \in {ConditionTs, ConditionJs},
        other \in {ConditionTs, ConditionJs} :
       LET validation == ValidateCompiledRule(rule)
           stored == NewRule(1, Submitted(condition, rule), now)
       IN /\ ~validation.threw /\ validation.valid
          /\ api' = [step |-> "addRule", compiled |-> rule, stored |-> stored,
                     condition |-> other,
                     duplicate |-> FindDuplicateRule(<<stored>>, other, rule)]
  /\ UNCHANGED <<storeVars, engineVars, histVars, now, scenario>>

StoredSpec == InitSignature /\ [][StoreCompiled]_vars

\* An optional member: missing, or one of the values.
Member(key, values) == {<<>>} \cup {[k \in {key} |-> v] : v \in values}

\* The errors object POST /rules builds from the request body.
BodyErrors(body) ==
  {key \in {"name"} :
     \/ key \notin DOMAIN body
     \/ ~IsStr(body[key])
     \/ Len(Trim(body[key].string)) = 0
     \/ Len(body[key].string) > 100}
  \cup {key \in {"condition"} :
     \/ key \notin DOMAIN body
     \/ ~IsStr(body[key])
     \/ Len(Trim(body[key].string)) < 10
     \/ Len(body[key].string) > 1000}
  \cup {key \in {"description"} \cap DOMAIN body :
     ~IsStr(body[key]) \/ Len(body[key].string) > 500}
  \cup {key \in {"compiled"} \cap DOMAIN body : ~IsObj(body[key])}

\* The requests served so far.
Served(request) == IF "served" \in DOMAIN request THEN request.served ELSE 0

\* res.status(status).json({error, ...})
Answered(request, status, error) ==
  [step |-> "answered", served |-> Served(request) + 1, body |-> request.body,
   status |-> status, error |-> error]

\* What the handler passes to addRule.
RuleParams(body, compiledRule) ==
  [name |-> Trim(body.name.string),
   description |-> IF "description" \in DOMAIN body /\ Len(body.description.string) > 0
                     THEN Trim(body.description.string) ELSE <<>>,
   condition |-> Trim(body.condition.string), compiled |-> compiledRule, source |-> "llm"]

\* Variant: the handler without its duplicate check.
RefusalOfInvalid(validation, duplicate) ==
  IF validation.threw THEN <<500, "Internal server error">>
  ELSE IF ~validation.valid THEN <<400, "Rule validation failed">>
  ELSE <<>>

\* The status and error the handler answers with instead of adding the
\* rule, <<>> when it goes on to add it.
Refusal(validation, duplicate) ==
  IF validation.threw THEN <<500, "Internal server error">>
  ELSE IF ~validation.valid THEN <<400, "Rule validation failed">>
  ELSE IF duplicate /= NoRule THEN <<409, "Rule already exists">>
  ELSE <<>>

\* The handler from validateCompiledRuleWithIntent on, which runs without
\* an await up to the save addRule queues: the validation (an exception in
\* it is answered 500 by the catch), the duplicate check, then addRule
\* pushing the rule and queueing its save.
Decide(request, compiledRule) ==
  LET condition == Trim(request.body.condition.string)
      validation == ValidateCompiledRuleWithIntent(compiledRule, condition)
      refusal == Refusal(validation, FindDuplicateRule(rules, condition, compiledRule))
  IN IF refusal /= <<>>
       THEN /\ api' = Answered(request, refusal[1], refusal[2])
            /\ UNCHANGED <<rules, nextId, saves, saveSeq, added>>
       ELSE LET rule == NewRule(nextId + 1, RuleParams(request.body, compiledRule), now) IN
            /\ rules' = Append(rules, rule)
            /\ added' = Append(added, Semantics(rule))
            /\ nextId' = nextId + 1
            /\ saves' = Enqueue(saves, saveSeq + 1, "addRule", 0, nextId + 1, <<>>)
            /\ saveSeq' = saveSeq + 1
            /\ api' = [step |-> "addRule", served |-> Served(request), body |-> request.body,
                       compiled |-> compiledRule, save |-> saveSeq + 1]

\* What no step of the handler touches.
apiFrame ==
  /\ UNCHANGED <<pc, platform, dbFile, backupFile, lastOp, opCount, restarts, faults,
                 bootLog, now, scenario, calls>>
  /\ engineUnchanged

\* POST /rules arrives: the body is checked, and with a compiled rule in
\* it the handler goes on to validate that rule; without one it asks
\* llmClient.checkHealth first.
PostRules ==
  /\ pc = "running"
  /\ api.step \in {"idle", "answered"}
  /\ Served(api) < MaxRequests
  /\ \E body \in scenario.bodies :
       LET request == [step |-> "received", served |-> Served(api), body |-> body] IN
       IF BodyErrors(body) /= {}
         THEN /\ api' = Answered(request, 400, "Validation failed")
              /\ UNCHANGED <<rules, nextId, saves, saveSeq, added>>
       ELSE IF "compiled" \in DOMAIN body
         THEN Decide(request, body.compiled.object)
         ELSE /\ api' = [request EXCEPT !.step = "checkHealth"]
              /\ UNCHANGED <<rules, nextId, saves, saveSeq, added>>
  /\ apiFrame

\* checkHealth resolves: 503 when the model is not available, compile
\* otherwise.
HealthChecked ==
  /\ api.step = "checkHealth"
  /\ \E llmAvailable \in BOOLEAN :
       api' = IF llmAvailable THEN [api EXCEPT !.step = "compile"]
              ELSE Answered(api, 503, "LLM unavailable")
  /\ UNCHANGED <<rules, nextId, saves, saveSeq, added>>
  /\ apiFrame

\* compile resolves: 400 for a reject or a result without a rule, and the
\* handler goes on with the compiled rule otherwise.
CompileReturned ==
  /\ api.step = "compile"
  /\ \E response \in scenario.responses :
       LET compiledResult == Compile(Trim(api.body.condition.string), response) IN
       IF "reject" \in DOMAIN compiledResult
         THEN /\ api' = Answered(api, 400, "Rule rejected")
              /\ UNCHANGED <<rules, nextId, saves, saveSeq, added>>
       ELSE IF "rule" \notin DOMAIN compiledResult
         THEN /\ api' = Answered(api, 400, "Rule compilation failed")
              /\ UNCHANGED <<rules, nextId, saves, saveSeq, added>>
       ELSE Decide(api, compiledResult.rule)
  /\ apiFrame

\* Request bodies: a rule for each condition with each compiled rule or
\* with none, a compiled rule that is too broad and one without a match
\* object, a condition that is too short, and members of the wrong type.
CompiledBroad == [type |-> "pattern", match |-> [eventTypes |-> <<Chars("deleted")>>]]
CompiledBare == [type |-> "pattern"]
PostBodies ==
  {[name |-> Str(Chars(" rule ")), condition |-> Str(condition)] @@ compiled :
     condition \in {ConditionTs, ConditionTsLoud, ConditionPy, ConditionJs},
     compiled \in Member("compiled", {Obj(CompiledTs), Obj(CompiledPy), Obj(CompiledJs),
                                      Obj(CompiledBroad), Obj(CompiledBare)})}
  \cup {[name |-> Str(Chars("rule")), condition |-> Str(Chars("in src "))],
        [name |-> Num(5), condition |-> Str(ConditionTs), compiled |-> Obj(CompiledTs)],
        [name |-> Str(Chars("rule")), condition |-> Str(ConditionTs), compiled |-> Str(<<>>)]}

\* What the model answers the API's compile calls with.
ApiResponses ==
  {GenerateFailed, NoJson,
   Json([reject |-> Obj([reason |-> Str(Chars("too vague"))])]),
   Json([type |-> Str(Chars("pattern")),
         match |-> Obj([extensions |-> Arr(<<Str(Chars("md"))>>)])]),
   Json([type |-> Str(Chars("threshold")), match |-> Obj(<<>>), count |-> Num(3)])}

\* The API server in front of the store: requests one after the other,
\* each through its awaits, while the saves run.
InitApi ==
  /\ Constructed
  /\ scenario = [addable |-> {}, patches |-> {}, watched |-> {}, rules |-> MaxRules,
                 ops |-> 0, events |-> 0, ticks |-> 0,
                 bodies |-> PostBodies, responses |-> ApiResponses]

NextApi ==
  \/ StoreInit
  \/ SaveStart \/ SaveWriteFile \/ SaveRename \/ SaveCopyFile \/ SaveUnlink \/ SaveCleanup
  \/ PostRules \/ HealthChecked \/ CompileReturned

ApiSpec == InitApi /\ [][NextApi]_vars

\* The requests the server is handling or has answered, when it takes
\* them as they come.
Serving(requests) == [step |-> "serving", requests |-> requests]
Handled == IF api.step = "serving" THEN api.requests ELSE <<>>

\* One handler from validateCompiledRuleWithIntent up to its next await or
\* its answer: the request as it stands after the validation, the duplicate
\* check and, when neither refuses, the call of addRule.
Decided(request, compiledRule) ==
  LET condition == Trim(request.body.condition.string)
      validation == ValidateCompiledRuleWithIntent(compiledRule, condition)
      refusal == Refusal(validation, FindDuplicateRule(rules, condition, compiledRule))
  IN IF refusal /= <<>>
       THEN Answered(request, refusal[1], refusal[2])
       ELSE [step |-> "addRule", served |-> Served(request), body |-> request.body,
             compiled |-> compiledRule, save |-> saveSeq + 1]

\* Request k goes on as `next`; addRule, when the handler called it, has
\* pushed the rule and queued its save.
GoesOn(k, next) ==
  /\ api' = Serving(IF k > Len(Handled) THEN Append(Handled, next)
                    ELSE [Handled EXCEPT ![k] = next])
  /\ IF next.step = "addRule"
       THEN LET rule == NewRule(nextId + 1, RuleParams(next.body, next.compiled), now) IN
            /\ rules' = Append(rules, rule)
            /\ added' = Append(added, Semantics(rule))
            /\ nextId' = nextId + 1
            /\ saves' = Enqueue(saves, saveSeq + 1, "addRule", 0, nextId + 1, <<>>)
            /\ saveSeq' = saveSeq + 1
       ELSE UNCHANGED <<rules, nextId, saves, saveSeq, added>>
  /\ apiFrame

\* POST /rules arrives while other requests are at their awaits.
PostArrives ==
  /\ pc = "running"
  /\ api.step \in {"idle", "serving"}
  /\ Len(Handled) < MaxRequests
  /\ \E body \in scenario.bodies :
       LET request == [step |-> "received", served |-> 0, body |-> body] IN
       GoesOn(Len(Handled) + 1,
              IF BodyErrors(body) /= {} THEN Answered(request, 400, "Validation failed")
              ELSE IF "compiled" \in DOMAIN body THEN Decided(request, body.compiled.object)
              ELSE [request EXCEPT !.step = "checkHealth"])

\* checkHealth resolves for one of the requests.
HealthResolves ==
  \E k \in 1..Len(Handled), llmAvailable \in BOOLEAN :
    /\ Handled[k].step = "checkHealth"
    /\ GoesOn(k, IF llmAvailable THEN [Handled[k] EXCEPT !.step = "compile"]
                 ELSE Answered(Handled[k], 503, "LLM unavailable"))

\* compile resolves for one of the requests.
CompileResolves ==
  \E k \in 1..Len(Handled), response \in scenario.responses :
    /\ Handled[k].step = "compile"
    /\ LET compiledResult == Compile(Trim(Handled[k].body.condition.string), response) IN
       GoesOn(k, IF "reject" \in DOMAIN compiledResult
                   THEN Answered(Handled[k], 400, "Rule rejected")
                 ELSE IF "rule" \in DOMAIN compiledResult
                   THEN Decided(Handled[k], compiledResult.rule)
                 ELSE Answered(Handled[k], 400, "Rule compilation failed"))

\* Requests for the same files under two condition texts, with the
\* compiled rule left to the model or supplied, once with numbers a
\* pattern rule has no use for.
CompiledJsCounted ==
  [type |-> "pattern",
   match |-> [extensions |-> <<Chars(".js")>>, eventTypes |-> <<Chars("created")>>],
   windowSeconds |-> 60, count |-> 3]
ConcurrentBodies ==
  {[name |-> Str(Chars("rule")), condition |-> Str(condition)] @@ compiled :
     condition \in {ConditionJs, ConditionJsNew},
     compiled \in Member("compiled", {Obj(CompiledJs), Obj(CompiledJsCounted)})}
ConcurrentResponses ==
  {GenerateFailed,
   Json([type |-> Str(Chars("pattern")),
         match |-> Obj([extensions |-> Arr(<<Str(Chars("js"))>>)])])}

\* The API server in front of the store, a request arriving while another
\* is at an await.
InitConcurrent ==
  /\ Constructed
  /\ scenario = [addable |-> {}, patches |-> {}, watched |-> {}, rules |-> MaxRules,
                 ops |-> 0, events |-> 0, ticks |-> 0,
                 bodies |-> ConcurrentBodies, responses |-> ConcurrentResponses]

NextConcurrent ==
  \/ StoreInit
  \/ SaveStart \/ SaveWriteFile \/ SaveRename \/ SaveCopyFile \/ SaveUnlink \/ SaveCleanup
  \/ PostArrives \/ HealthResolves \/ CompileResolves

ConcurrentSpec == InitConcurrent /\ [][NextConcurrent]_vars

\* The conditions compile is called with.
CompiledConditions ==
  {ConditionTs, ConditionPy, ConditionExcept, ConditionCountOnly, ConditionWindowOnly,
   ConditionTwice}

\* What the model answers: a rule object whose members are missing, well
\* formed or of another JSON type, a reject object, or no usable JSON.
EmittedMatches ==
  {Obj(ext @@ inc @@ exc @@ typ) :
     ext \in Member("extensions", {Arr(<<>>), Arr(<<Str(Chars("md")), Num(1)>>), Str(Chars(".md"))}),
     inc \in Member("pathIncludes", {Arr(<<>>), Arr(<<Str(Chars(" lib/ "))>>)}),
     exc \in Member("pathExcludes", {Arr(<<Str(Chars("node_modules/"))>>)}),
     typ \in Member("eventTypes", {Arr(<<Str(Chars("New")), Str(Chars("bogus"))>>)})}
EmittedRules ==
  {type @@ match @@ window @@ count :
     type \in Member("type", {Str(Chars("pattern")), Str(Chars(" Threshold ")),
                              Str(Chars("other")), Num(1)}),
     match \in Member("match", {Null} \cup EmittedMatches),
     window \in Member("windowSeconds", {Num(60), Str(Chars("600")), Null}),
     count \in Member("count", {Num(3), Num(0)})}
EmittedRejects ==
  {[reject |-> Obj([reason |-> Str(Chars("too vague"))])], [reject |-> Obj(<<>>)],
   [reject |-> Str(Chars("no")), type |-> Str(Chars("pattern"))]}
ModelResponses ==
  {GenerateFailed, NoText, NoJson, BadJson} \cup {Json(fields) : fields \in EmittedRules \cup EmittedRejects}

\* compile applied to a condition, for each thing the model may answer.
CompileRule ==
  /\ api.step = "idle"
  /\ \E condition \in CompiledConditions, response \in ModelResponses :
       api' = [step |-> "compile", condition |-> condition, response |-> response,
               result |-> Compile(condition, response)]
  /\ UNCHANGED <<storeVars, engineVars, histVars, now, scenario>>

CompileSpec == InitSignature /\ [][CompileRule]_vars

\* The words of the condition texts extractIntent is applied to: synonyms
\* of each class in either case, words that only contain or extend one
\* ("exchange", "deletes", "renew"), and a word of no class.
Vocabulary ==
  <<Chars("DELETE"), Chars("removed,"), Chars("creating"), Chars("new"), Chars("Edited"),
    Chars("update"), Chars("change"), Chars("changes"), Chars("exchange"), Chars("deletes"),
    Chars("renew"), Chars("files")>>

MaxWords == 3

\* The words joined by single spaces.
RECURSIVE Joined(_)
Joined(words) ==
  IF Len(words) = 0 THEN <<>>
  ELSE IF Len(words) = 1 THEN Vocabulary[words[1]]
  ELSE Vocabulary[words[1]] \o <<" ">> \o Joined(Tail(words))

IntentTexts ==
  {Joined(words) : words \in UNION {[1..n -> 1..Len(Vocabulary)] : n \in 0..MaxWords}}

\* extractIntent applied to a condition text.
Extract ==
  /\ api.step = "idle"
  /\ \E condition \in IntentTexts :
       api' = [step |-> "extractIntent", condition |-> condition,
               result |-> ExtractIntent(condition)]
  /\ UNCHANGED <<storeVars, engineVars, histVars, now, scenario>>

IntentSpec == InitSignature /\ [][Extract]_vars

(***************************************************************************)
(* File Watcher.                                                           *)
(***************************************************************************)
\* The files chokidar reports, as the segments of path.relative(watchPath,
\* filePath): two inside the watch directory and one outside it.
WatchedFiles == {<<"a", "x.t">>, <<"b.T">>, <<"..", "y.t">>}
RawTypes == {"add", "change", "unlink"}

NoTimer == [armed |-> FALSE]
NoPath == <<>>

\* Variant: an add in the burst wins over an unlink.
normalizeTypeAddedFirst(state) ==
  IF state.added THEN "created" ELSE IF state.deleted THEN "deleted" ELSE "modified"

\* FileWatcher.normalizeType
normalizeType(state) ==
  IF state.deleted THEN "deleted" ELSE IF state.added THEN "created" ELSE "modified"

\* FileWatcher.normalizePath: null outside the watch directory, otherwise
\* the segments joined with "/".
RECURSIVE JoinSlash(_)
JoinSlash(segments) ==
  IF Len(segments) = 1 THEN Chars(segments[1])
  ELSE Chars(segments[1]) \o <<"/">> \o JoinSlash(Tail(segments))
normalizePath(file) == IF file[1] = ".." THEN NoPath ELSE JoinSlash(file)

\* FileWatcher.enqueue: the flags of the path's state with this
\* notification's added, the pending timer cleared and a new one set.
\* `burst` is history: the notifications the state has collected.
Debounced(existing, type, t) ==
  LET state == IF existing.armed THEN existing
               ELSE [armed |-> TRUE, added |-> FALSE, changed |-> FALSE,
                     deleted |-> FALSE, timer |-> 0, burst |-> <<>>]
  IN [state EXCEPT !.added = @ \/ type = "add",
                   !.changed = @ \/ type = "change",
                   !.deleted = @ \/ type = "unlink",
                   !.timer = t + DebounceTicks,
                   !.burst = Append(@, [type |-> type, at |-> t])]

watcherFrame == UNCHANGED <<storeVars, engineVars, histVars, scenario>>

\* FileWatcher.start
WatcherStart ==
  /\ api.step = "idle"
  /\ api' = [step |-> "watching", debounceMap |-> [f \in WatchedFiles |-> NoTimer],
             emitted |-> <<>>, raw |-> 0]
  /\ UNCHANGED now
  /\ watcherFrame

\* chokidar reports add, change or unlink for a file: enqueue.
WatcherEnqueue ==
  /\ api.step = "watching"
  /\ api.raw < MaxRaw
  /\ \E type \in RawTypes, file \in WatchedFiles :
       api' = [api EXCEPT !.debounceMap[file] = Debounced(@, type, now), !.raw = @ + 1]
  /\ UNCHANGED now
  /\ watcherFrame

\* A debounce timer fires: the state leaves the map and, for a path inside
\* the watch directory, the event is emitted.
WatcherTimer ==
  /\ api.step = "watching"
  /\ \E file \in WatchedFiles :
       LET state == api.debounceMap[file] IN
       /\ state.armed /\ state.timer <= now
       /\ api' = [api EXCEPT
                    !.debounceMap[file] = NoTimer,
                    !.emitted = IF normalizePath(file) = NoPath THEN @
                                ELSE Append(@, [type |-> normalizeType(state),
                                                path |-> normalizePath(file),
                                                timestamp |-> now])]
  /\ UNCHANGED now
  /\ watcherFrame

\* Time passes, once the timers that are due have fired.
WatcherTick ==
  /\ api.step = "watching"
  /\ now < MaxClock
  /\ \A file \in WatchedFiles :
       api.debounceMap[file].armed => api.debounceMap[file].timer > now
  /\ now' = now + 1
  /\ UNCHANGED api
  /\ watcherFrame

NextDebounce == WatcherStart \/ WatcherEnqueue \/ WatcherTimer \/ WatcherTick

DebounceSpec == InitSignature /\ [][NextDebounce]_vars

(***************************************************************************)
(* LLM Client.                                                             *)
(***************************************************************************)
\* generate's default retries
Retries == 2

\* What client.post('/api/generate') settles with: it rejects, or resolves
\* with a body that has or lacks the response text and the token counts
\* (prompt_eval_count and eval_count).
PostOutcomes ==
  {[ok |-> FALSE]} \cup {[ok |-> TRUE, text |-> t, counts |-> c] : t, c \in BOOLEAN}

NoUsage == [requestCount |-> 0, successCount |-> 0, failureCount |-> 0]

\* LLMClient.updateTokenUsage: [usage, threw].  Without token counts the
\* completion is estimated from response.length, which throws when the
\* body has no response text; the counters are incremented before that.
UpdateTokenUsage(usage, data, success) ==
  IF success
    THEN [usage |-> [usage EXCEPT !.requestCount = @ + 1, !.successCount = @ + 1],
          threw |-> ~data.counts /\ ~data.text]
    ELSE [usage |-> [usage EXCEPT !.requestCount = @ + 1, !.failureCount = @ + 1],
          threw |-> FALSE]

IdleCall == [pc |-> "idle", attempt |-> 0, posts |-> 0, counted |-> 0]

\* generate(prompt) is called: attempt 1 posts its request.
LlmGenerate ==
  /\ api.step = "llm"
  /\ api.call.pc \in {"idle", "returned", "threw"}
  /\ api.calls < MaxGenerate
  /\ api' = [api EXCEPT !.call = [pc |-> "posting", attempt |-> 1, posts |-> 1, counted |-> 0],
                        !.calls = @ + 1]
  /\ watcherFrame /\ UNCHANGED now

\* The catch of generate at this attempt: the last attempt records the
\* failure and throws, an earlier one waits before the next attempt.
Caught(usage, call) ==
  IF call.attempt = Retries
    THEN [usage |-> UpdateTokenUsage(usage, [ok |-> FALSE], FALSE).usage,
          call |-> [call EXCEPT !.pc = "threw", !.counted = @ + 1]]
    ELSE [usage |-> usage, call |-> [call EXCEPT !.pc = "delay"]]

\* The request of the attempt settles: a response is counted and returned,
\* and whatever is thrown inside the try goes to the catch.
LlmPostSettles ==
  /\ api.step = "llm"
  /\ api.call.pc = "posting"
  /\ \E data \in PostOutcomes :
       IF data.ok
         THEN LET updated == UpdateTokenUsage(api.usage, data, TRUE)
                  counted == [api.call EXCEPT !.counted = @ + 1]
              IN IF updated.threw
                   THEN LET caught == Caught(updated.usage, counted) IN
                        api' = [api EXCEPT !.usage = caught.usage, !.call = caught.call]
                   ELSE api' = [api EXCEPT !.usage = updated.usage,
                                           !.call = [counted EXCEPT !.pc = "returned"]]
         ELSE LET caught == Caught(api.usage, api.call) IN
              api' = [api EXCEPT !.usage = caught.usage, !.call = caught.call]
  /\ watcherFrame /\ UNCHANGED now

\* The delay before the next attempt is over: the next attempt posts.
LlmRetry ==
  /\ api.step = "llm"
  /\ api.call.pc = "delay"
  /\ api' = [api EXCEPT !.call.pc = "posting", !.call.attempt = @ + 1, !.call.posts = @ + 1]
  /\ watcherFrame /\ UNCHANGED now

\* new LLMClient(host, model)
LlmCreated ==
  /\ api.step = "idle"
  /\ api' = [step |-> "llm", usage |-> NoUsage, call |-> IdleCall, calls |-> 0]
  /\ watcherFrame /\ UNCHANGED now

NextGenerate == LlmCreated \/ LlmGenerate \/ LlmPostSettles \/ LlmRetry

GenerateSpec == InitSignature /\ [][NextGenerate]_vars

(***************************************************************************)
(* Notifier.  recentNotifications maps a key to the time of the last       *)
(* notification sent for it; sent, suppressed and cleaned are history.     *)
(***************************************************************************)
dedupeWindow == 30000
cleanupInterval == 300000

\* Date.now(): the process starts at Epoch, now is the time since.
DateNow == Epoch + now

NotifiedMatches ==
  {[ruleId |-> "rule_1", path |-> ""], [ruleId |-> "rule_1", path |-> "all"],
   [ruleId |-> "rule_1", path |-> "a.ts"], [ruleId |-> "rule_2", path |-> ""]}

\* `${match.ruleId}:${match.path || 'all'}`
NotificationKey(match) ==
  match.ruleId \o ":" \o (IF match.path = "" THEN "all" ELSE match.path)

NotificationKeys == {NotificationKey(match) : match \in NotifiedMatches}

NoEntry == [set |-> FALSE, at |-> 0]

\* The waits between two calls: the boundaries of both periods.
Waits == {1, dedupeWindow - 1, cleanupInterval}

cleanupOldEntriesUpToNow(recent, t) ==
  [key \in NotificationKeys |->
     IF recent[key].set /\ recent[key].at < t THEN NoEntry ELSE recent[key]]

cleanupOldEntries(recent, t) ==
  LET threshold == t - dedupeWindow * 2
  IN [key \in NotificationKeys |->
        IF recent[key].set /\ recent[key].at < threshold THEN NoEntry ELSE recent[key]]

\* conditionalCleanup: [recentNotifications, lastCleanup] after the call.
conditionalCleanup(recent, lastCleanup, t) ==
  IF t - lastCleanup > cleanupInterval
  THEN [recent |-> cleanupOldEntries(recent, t), lastCleanup |-> t]
  ELSE [recent |-> recent, lastCleanup |-> lastCleanup]

\* new Notifier(enabled)
NotifierCreated ==
  /\ api.step = "idle"
  /\ \E enabled \in BOOLEAN :
       api' = [step |-> "notifier", enabled |-> enabled,
               recentNotifications |-> [key \in NotificationKeys |-> NoEntry],
               lastCleanup |-> DateNow,
               sent |-> [key \in NotificationKeys |-> <<>>],
               suppressed |-> [key \in NotificationKeys |-> 0],
               cleaned |-> {}, notified |-> 0, waited |-> 0]
  /\ watcherFrame /\ UNCHANGED now

notifyMatch ==
  /\ api.step = "notifier"
  /\ api.notified < MaxNotify
  /\ \E match \in NotifiedMatches :
       LET key == NotificationKey(match)
           lastNotified == api.recentNotifications[key]
           counted == [api EXCEPT !.notified = @ + 1]
           after == conditionalCleanup(
                      [api.recentNotifications EXCEPT ![key] = [set |-> TRUE, at |-> DateNow]],
                      api.lastCleanup, DateNow)
       IN api' =
            IF ~api.enabled THEN counted
            ELSE IF lastNotified.set /\ lastNotified.at /= 0
                    /\ DateNow - lastNotified.at < dedupeWindow
            THEN [counted EXCEPT !.suppressed[key] = @ + 1]
            ELSE [counted EXCEPT
                    !.recentNotifications = after.recent,
                    !.lastCleanup = after.lastCleanup,
                    !.sent[key] = Append(@, DateNow),
                    !.cleaned = @ \cup {k \in NotificationKeys :
                                          /\ api.recentNotifications[k].set
                                          /\ k /= key
                                          /\ ~after.recent[k].set}]
  /\ watcherFrame /\ UNCHANGED now

\* Time passes between two calls.
NotifierWait ==
  /\ api.step = "notifier"
  /\ api.waited < MaxWait
  /\ \E wait \in Waits : now' = now + wait
  /\ api' = [api EXCEPT !.waited = @ + 1]
  /\ watcherFrame

NextNotifier == NotifierCreated \/ notifyMatch \/ NotifierWait

NotifierSpec == InitSignature /\ [][NextNotifier]_vars

(***************************************************************************)
(* LLMQueue.  queue holds the waiting items, active counts the running     *)
(* tasks, immediates the setImmediate callbacks not yet run; outcome,      *)
(* started, lastDrop and atDrain are history.                              *)
(***************************************************************************)
AGING_THRESHOLD == 10000
DrainTimeout == 30000

TaskIds == 1..MaxEnqueue
Priorities == {1, 2}
NoDrop == [id |-> 0, priority |-> 0, waiting |-> {}]
NoDrain == [pc |-> "none", startTime |-> 0, timeoutMs |-> 0, waiting |-> {},
            running |-> {}, started |-> {}]

\* Array.prototype.sort, which is stable, under a comparator.
StableSorted(queue, Cmp(_, _)) ==
  LET n == Len(queue)
      pos(i) == 1 + Cardinality({j \in 1..n :
                                   \/ Cmp(queue[j], queue[i]) < 0
                                   \/ Cmp(queue[j], queue[i]) = 0 /\ j < i})
  IN [p \in 1..n |-> queue[CHOOSE i \in 1..n : pos(i) = p]]

\* (a, b) => a.priority - b.priority
ByPriority(a, b) == a.priority - b.priority

\* (a, b) => a.priority - b.priority || a.timestamp - b.timestamp
ByPriorityThenTimestamp(a, b) ==
  IF a.priority - b.priority /= 0 THEN a.priority - b.priority
  ELSE a.timestamp - b.timestamp

sortQueue(queue, t) ==
  LET aged == [i \in 1..Len(queue) |->
                 IF t - queue[i].enqueueTime > AGING_THRESHOLD
                 THEN [queue[i] EXCEPT !.priority = IF @ - 1 > 0 THEN @ - 1 ELSE 0]
                 ELSE queue[i]]
  IN StableSorted(aged, ByPriorityThenTimestamp)

processQueue(q) ==
  IF q.processing \/ q.shuttingDown THEN q
  ELSE [q EXCEPT !.processing = TRUE, !.immediates = @ + 1]

\* The condition of the loop of the setImmediate callback.
LoopGoesOnUnlimited(q) == Len(q.queue) > 0 /\ ~q.shuttingDown

LoopGoesOn(q) ==
  q.active < q.maxConcurrent /\ Len(q.queue) > 0 /\ ~q.shuttingDown

\* The loop: sort, shift, count the task as active and call it.
RECURSIVE StartTasks(_, _)
StartTasks(q, t) ==
  IF ~LoopGoesOn(q) THEN q
  ELSE LET sorted == sortQueue(q.queue, t)
           item == Head(sorted)
       IN StartTasks([q EXCEPT !.queue = Tail(sorted),
                               !.active = @ + 1,
                               !.running = @ \cup {item.id},
                               !.started = @ \cup {item.id},
                               !.outcome[item.id] = "running"], t)

\* new LLMQueue(maxConcurrent, maxQueueSize)
QueueCreated ==
  /\ api.step = "idle"
  /\ \E maxConcurrent \in {1, 2}, maxQueueSize \in {0, 1, 2} :
       api' = [step |-> "queue", maxConcurrent |-> maxConcurrent,
               maxQueueSize |-> maxQueueSize, queue |-> <<>>, active |-> 0,
               processing |-> FALSE, shuttingDown |-> FALSE, immediates |-> 0,
               running |-> {}, started |-> {},
               outcome |-> [id \in TaskIds |-> "none"],
               lastDrop |-> NoDrop, drain |-> NoDrain, enqueued |-> 0, aged |-> 0]
  /\ watcherFrame /\ UNCHANGED now

enqueue ==
  /\ api.step = "queue"
  /\ api.enqueued < MaxEnqueue
  /\ \E priority \in Priorities :
       LET id == api.enqueued + 1
           counted == [api EXCEPT !.enqueued = id]
           overflow == Len(api.queue) >= api.maxQueueSize
           byPriority == StableSorted(api.queue, ByPriority)
           drops == overflow /\ Len(api.queue) > 0
           dropped == byPriority[Len(byPriority)]
           kept == IF drops THEN SubSeq(byPriority, 1, Len(byPriority) - 1)
                   ELSE api.queue
           item == [id |-> id, priority |-> priority, timestamp |-> now,
                    enqueueTime |-> now]
           accepted == [counted EXCEPT
                        !.queue = sortQueue(Append(kept, item), now),
                        !.outcome = IF drops
                                    THEN [@ EXCEPT ![dropped.id] = "overflow", ![id] = "waiting"]
                                    ELSE [@ EXCEPT ![id] = "waiting"],
                        !.lastDrop = IF drops
                                     THEN [id |-> dropped.id, priority |-> dropped.priority,
                                           waiting |-> {api.queue[i].priority : i \in 1..Len(api.queue)}]
                                     ELSE @]
       IN api' = IF api.shuttingDown
                 THEN [counted EXCEPT !.outcome[id] = "shutdown"]
                 ELSE processQueue(accepted)
  /\ watcherFrame /\ UNCHANGED now

\* The callback processQueue hands to setImmediate.
QueueImmediate ==
  /\ api.step = "queue"
  /\ api.immediates > 0
  /\ api' = [StartTasks([api EXCEPT !.immediates = @ - 1], now)
               EXCEPT !.processing = FALSE]
  /\ watcherFrame /\ UNCHANGED now

\* A running task settles: then or catch, and finally.
TaskSettles ==
  /\ api.step = "queue"
  /\ \E id \in api.running, ok \in BOOLEAN :
       api' = processQueue([api EXCEPT
                              !.outcome[id] = IF ok THEN "resolved" ELSE "failed",
                              !.running = @ \ {id},
                              !.active = @ - 1,
                              !.processing = FALSE])
  /\ watcherFrame /\ UNCHANGED now

\* drain(timeoutMs) up to its wait for the active tasks.
drain ==
  /\ api.step = "queue"
  /\ api.drain.pc = "none"
  /\ \E timeoutMs \in {0, DrainTimeout} :
       api' = [api EXCEPT
                 !.shuttingDown = TRUE,
                 !.queue = <<>>,
                 !.outcome = [id \in TaskIds |->
                                IF \E i \in 1..Len(api.queue) : api.queue[i].id = id
                                THEN "cancelled" ELSE @[id]],
                 !.drain = [pc |-> IF api.active > 0 THEN "waiting" ELSE "complete",
                            startTime |-> now, timeoutMs |-> timeoutMs,
                            waiting |-> {api.queue[i].id : i \in 1..Len(api.queue)},
                            running |-> api.running, started |-> api.started]]
  /\ watcherFrame /\ UNCHANGED now

\* drain wakes from its 100 ms sleep and leaves the loop.
DrainResumes ==
  /\ api.step = "queue"
  /\ api.drain.pc = "waiting"
  /\ api.active = 0 \/ now - api.drain.startTime > api.drain.timeoutMs
  /\ api' = [api EXCEPT !.drain.pc = IF api.active = 0 THEN "complete" ELSE "timedOut"]
  /\ watcherFrame /\ UNCHANGED now

\* Time passes: long enough for the waiting items to age.
QueueWaits ==
  /\ api.step = "queue"
  /\ api.aged < MaxAging
  /\ now' = now + AGING_THRESHOLD + 1
  /\ api' = [api EXCEPT !.aged = @ + 1]
  /\ watcherFrame

NextQueue ==
  \/ QueueCreated \/ enqueue \/ QueueImmediate \/ TaskSettles
  \/ drain \/ DrainResumes \/ QueueWaits

QueueSpec == InitSignature /\ [][NextQueue]_vars

(***************************************************************************)
(* Properties.                                                             *)
(***************************************************************************)
\* The logged timestamps no older than the window before the last one.
WithinWindow(log) ==
  {i \in 1..Len(log.ts) : log.ts[Len(log.ts)] - log.ts[i] <= log.windowSeconds * 1000}

(* C1: a threshold rule with count N >= 1 and window W fires on a          *)
(* filter-matching event exactly when, counting that event, at least N of  *)
(* the events recorded since its last fire (or since startup) are no older *)
(* than W*1000 ms before it; after a fire the count starts again from the  *)
(* next event.                                                             *)
C1_ThresholdFiresOnNth ==
  \A id \in WindowIds :
    LET log == evalLog[id] IN
    (log.ts /= <<>> /\ log.count >= 1) =>
      (log.fired <=> Cardinality(WithinWindow(log)) >= log.count)

\* A count-2 rule fired on the third event since its last fire: the first
\* had left the window.
C1_Witness ==
  \E id \in WindowIds :
    /\ evalLog[id].fired /\ evalLog[id].count = 2
    /\ Len(evalLog[id].ts) = 3
    /\ Cardinality(WithinWindow(evalLog[id])) = 2

\* frag is a substring of path when case is ignored.
CaseInsensitiveSubstring(frag, path) ==
  \E off \in 0..(Len(path) - Len(frag)) :
    \A j \in 1..Len(frag) : LowerChar(path[off + j]) = LowerChar(frag[j])

SameIgnoringCase(a, b) ==
  Len(a) = Len(b) /\ \A j \in 1..Len(a) : LowerChar(a[j]) = LowerChar(b[j])

\* The entries of a constraint list, none when the key is absent.
Constraint(match, key) == IF key \in DOMAIN match THEN SeqRange(match[key]) ELSE {}

FilterHolds(event, match) ==
  /\ \A frag \in Constraint(match, "pathExcludes") : ~CaseInsensitiveSubstring(frag, event.path)
  /\ \/ Constraint(match, "pathIncludes") = {}
     \/ \E frag \in Constraint(match, "pathIncludes") : CaseInsensitiveSubstring(frag, event.path)
  /\ \/ Constraint(match, "extensions") = {}
     \/ \E ext \in Constraint(match, "extensions") : SameIgnoringCase(ext, Extname(event.path))
  /\ \/ Constraint(match, "eventTypes") = {}
     \/ event.type \in Constraint(match, "eventTypes")

MatchesOf(matches, rule) == {k \in 1..Len(matches) : matches[k].ruleId = rule.id}

(* C2: for an event whose path passed validation, a pattern rule of the    *)
(* call's snapshot produces exactly one match if the filter holds (no      *)
(* exclude fragment is a case-insensitive substring of the path, and each  *)
(* of pathIncludes, extensions and eventTypes is absent, empty or          *)
(* satisfied) and no match otherwise.                                      *)
C2_PatternMatchIffFilterHolds ==
  /\ \A c \in 1..Len(calls) :
       calls[c].pc \in {"awaiting", "resumeOk", "resumeFail"} =>
         LET rule == calls[c].rules[calls[c].i] IN
         rule.type = "pattern" =>
           /\ FilterHolds(calls[c].event, rule.match)
           /\ Cardinality(MatchesOf(calls[c].matches, rule)) = 1
  /\ returned.status = "returned" =>
       \A i \in 1..Len(returned.rules) :
         LET rule == returned.rules[i] IN
         rule.type = "pattern" =>
           Cardinality(MatchesOf(returned.matches, rule))
             = IF FilterHolds(returned.event, rule.match) THEN 1 ELSE 0

\* A rule with all four constraints matched a path that only fits its
\* include fragments and its extension when case is ignored.
C2_Witness ==
  /\ returned.status = "returned"
  /\ Len(returned.rules) = 1 /\ Len(returned.matches) = 1
  /\ \A key \in {"pathExcludes", "pathIncludes", "extensions", "eventTypes"} :
       HasList(returned.rules[1].match, key)
  /\ \A frag \in Constraint(returned.rules[1].match, "pathIncludes") :
       ~Includes(returned.event.path, frag)
  /\ Extname(returned.event.path) \notin Constraint(returned.rules[1].match, "extensions")

\* snapshot holds exactly the enabled rules of ruleList, in its order.
EnabledInOrder(snapshot, ruleList) ==
  /\ \A i \in 1..Len(snapshot) :
       \E k \in 1..Len(ruleList) : ruleList[k] = snapshot[i] /\ ruleList[k].enabled
  /\ \A k \in 1..Len(ruleList) :
       ruleList[k].enabled => \E i \in 1..Len(snapshot) : snapshot[i] = ruleList[k]
  /\ \A i, j \in 1..Len(snapshot) :
       i < j => \E k, l \in 1..Len(ruleList) :
                  k < l /\ ruleList[k] = snapshot[i] /\ ruleList[l] = snapshot[j]

\* matches holds at most one match per rule of snapshot, in its order.
MatchesFollow(snapshot, matches) ==
  \A k \in 1..Len(matches) :
    \E i \in 1..Len(snapshot) :
      /\ snapshot[i].id = matches[k].ruleId
      /\ \A l \in (k + 1)..Len(matches) :
           \E j \in (i + 1)..Len(snapshot) : snapshot[j].id = matches[l].ruleId

\* The evaluateEvent call c reads the store in this step.
ReadsStore(c) == calls[c].pc = "validating" /\ calls'[c].pc = "snapshot"

\* The evaluateEvent call c runs its loop in this step.
RunsLoop(c) == calls[c].pc \in {"snapshot", "resumeOk"} /\ calls'[c] /= calls[c]

(* C3: an evaluateEvent call evaluates exactly the rules enabled when it   *)
(* reads the store, in insertion order: its match list has at most one     *)
(* match per such rule, in that order, and the threshold window of a rule  *)
(* outside that snapshot is not changed by the call.                       *)
C3_EvaluatesEnabledInOrder ==
  /\ [](\A c \in 1..Len(calls) : MatchesFollow(calls[c].rules, calls[c].matches))
  /\ [](MatchesFollow(returned.rules, returned.matches))
  /\ [][\A c \in 1..Len(calls) :
          /\ ReadsStore(c) => EnabledInOrder(calls'[c].rules, rules)
          /\ RunsLoop(c) =>
               \A id \in WindowIds :
                 (\A i \in 1..Len(calls[c].rules) : calls[c].rules[i].id /= id)
                   => thresholdWindows'[id] = thresholdWindows[id]]_vars

\* The second call returned a match of the one enabled rule while the
\* first rule, disabled, kept the timestamp in its window.
C3_Witness ==
  /\ returned.status = "returned" /\ returned.call = 2
  /\ Len(returned.rules) = 1 /\ Len(returned.matches) = 1
  /\ Len(rules) = 2 /\ ~rules[1].enabled
  /\ returned.rules[1].id = rules[2].id
  /\ thresholdWindows[rules[1].id] /= <<>>

(* C4: between evaluateEvent calls, stats.matches equals the number of     *)
(* matches pushed to the recent-match ring buffer and the number of        *)
(* matchCount increments made by recordMatch: every fire had all three     *)
(* effects.  Stated for the runs in which no rule was updated or deleted,  *)
(* so that every rule that fired is still in the store.                    *)
C4_FireHasThreeEffects ==
  (pc = "running" /\ opCount = 0 /\ \A c \in 1..Len(calls) : calls[c].pc = "done") =>
    (stats.matches = pushed /\ stats.matches = recorded)

(* C5: every stored rule has the id, type, match, windowSeconds and count  *)
(* it was added with, whatever updateRule was given.                       *)
C5_SemanticsImmutable ==
  \A i \in 1..Len(rules) :
    /\ rules[i].id \in 1..Len(added)
    /\ Semantics(rules[i]) = added[rules[i].id]

\* An update carrying match, type, count, windowSeconds and id was applied
\* to a threshold rule: its name changed.
C5_Witness ==
  \E i \in 1..Len(rules) :
    rules[i].name = "n2" /\ rules[i].type = "threshold" /\ lastOp.op = "updateRule"

(* C6: saves never overlap: a save is in its write/rename phase only when  *)
(* every save queued before it has settled, so at most one save is in      *)
(* that phase at any time.                                                 *)
C6_SavesNeverOverlap ==
  /\ Cardinality({i \in 1..Len(saves) : InFlight(saves[i])}) <= 1
  /\ \A i \in 1..Len(saves) :
       InFlight(saves[i]) => \A j \in 1..(i - 1) : Settled(saves[j])

\* The save of a recordMatch is renaming its temp file while the save of
\* another operation waits behind it.
C6_Witness ==
  \E i \in 1..(Len(saves) - 1) :
    /\ saves[i].st = "renaming" /\ saves[i].op = "recordMatch"
    /\ saves[i + 1].st = "queued"

\* The process is killed in this step.
Killed == pc \in {"init", "running"} /\ pc' = "boot"

(* C7: when the process is killed during a save over a complete document, *)
(* the target file holds afterwards a complete document (the previous one  *)
(* or the new one), never a part of one.                                   *)
C7_CrashLeavesWholeDocument ==
  [][(Killed /\ dbFile.kind = "doc") => dbFile'.kind = "doc"]_vars

\* The save ids the queue can hand out.
SaveIds == 1..(1 + MaxRules + MaxOps)

Pending(id) == \E i \in 1..Len(saves) : saves[i].id = id /\ ~Settled(saves[i])

(* C8: a failed save does not block later saves: every settled save ran    *)
(* its write (it was not rejected unrun behind a failed one), and every    *)
(* queued save eventually settles.                                         *)
C8_FailedSaveDoesNotBlock ==
  /\ [](\A i \in 1..Len(saves) : (Settled(saves[i]) /\ saves[i].id /= 0) => saves[i].ran)
  /\ \A id \in SaveIds : Pending(id) ~> (saveSeq >= id /\ ~Pending(id))

\* A save queued behind a save that failed is running.
C8_Witness ==
  \E i \in 2..Len(saves) :
    saves[i - 1].st = "failed" /\ InFlight(saves[i]) /\ saves[i].ran

\* The save that may write the target file in this step: the oldest
\* unsettled one.
Oldest(i) == ~Settled(saves[i]) /\ \A j \in 1..(i - 1) : Settled(saves[j])

(* C9: saves take effect in submission order: once every queued save has   *)
(* settled and the last one succeeded, the file is the serialization of    *)
(* the in-memory rule list; and the target file is written only by the     *)
(* oldest unsettled save, with the document that save serialized.          *)
C9_SavesApplyInOrder ==
  /\ []((pc = "running" /\ Len(saves) = 1 /\ saves[1].st = "ok" /\ saves[1].id /= 0)
          => dbFile = JsonStringify(rules))
  /\ [][(dbFile' /= dbFile /\ dbFile'.kind = "doc") =>
          \E i \in 1..Len(saves) : Oldest(i) /\ dbFile' = saves[i].serialized]_vars

\* Three saves settled, the last one succeeded after an earlier one failed,
\* and the file holds the two rules in memory.
C9_Witness ==
  /\ pc = "running" /\ Len(saves) = 1 /\ saves[1].st = "ok" /\ saves[1].id >= 3
  /\ faults > 0
  /\ Len(rules) = 2 /\ dbFile = JsonStringify(rules)

\* The mutation the queued save task belongs to turned the list `before`
\* into the list `after`, which is what the store's getters read.
Visible(task, before, after) ==
  LET old == FindIndex(before, task.rule)
      new == FindIndex(after, task.rule)
  IN CASE task.op = "addRule" -> old = 0 /\ new /= 0
       [] task.op = "deleteRule" -> old /= 0 /\ new = 0
       [] task.op = "updateRule" ->
            /\ new /= 0
            /\ \A k \in AllowedKeys \cap DOMAIN task.patch : after[new][k] = task.patch[k]
       [] task.op = "recordMatch" ->
            /\ old /= 0 /\ new /= 0
            /\ after[new].matchCount = before[old].matchCount + 1
            /\ "lastMatched" \in DOMAIN after[new] /\ after[new].lastMatched = now'
       [] OTHER -> FALSE

\* A new save was queued in this step.
Queued == saveSeq' = saveSeq + 1
NewTask == saves'[Len(saves')]

\* Save i settles as failed in this step.
Fails(i) ==
  /\ i <= Len(saves) /\ ~Settled(saves[i])
  /\ \E k \in 1..Len(saves') : saves'[k].id = saves[i].id /\ saves'[k].st = "failed"

(* C10: a mutation is in the in-memory list from the step that invokes it, *)
(* while its save is still queued; when that save fails the operation's    *)
(* promise rejects and the list is left as it is.                          *)
C10_VisibleAtOnceAndKeptOnFailure ==
  /\ [][(Queued /\ pc = "running") =>
          (NewTask.st = "queued" /\ Visible(NewTask, rules, rules'))]_vars
  /\ [][\A i \in 1..Len(saves) :
          Fails(i) =>
            /\ rules' = rules
            /\ saves[i].op \in {"addRule", "updateRule", "deleteRule"} =>
                 lastOp' = [op |-> saves[i].op, save |-> saves[i].id, result |-> "rejected"]
            /\ (saves[i].op = "recordMatch" /\ saves[i].call \in 1..Len(calls)) =>
                 calls'[saves[i].call].pc = "resumeFail"]_vars

\* An addRule was rejected because its save failed, and the rule it added
\* is in the list.
C10_Witness ==
  /\ lastOp.op = "addRule" /\ lastOp.result = "rejected"
  /\ \E i \in 1..Len(rules) : rules[i].id = nextId
  /\ \A i \in 1..Len(saves) : saves[i].id /= lastOp.save \/ saves[i].st = "failed"

(* C11: save followed by load is a round trip: when every save of a        *)
(* process had settled successfully as it ended, the init of the next      *)
(* process, having read and parsed the file, holds the same rules in the   *)
(* same order with the same fields.                                        *)
C11_RestartRoundTrip ==
  (pc = "init" /\ restarts > 0 /\ bootLog.durable /\ bootLog.unloaded = NoFile)
    => rules = bootLog.previous

(* C12: when init found the store file but could not read or parse it, a   *)
(* backup holding that file's content exists from the moment the load has  *)
(* ended, hence before init's save overwrites the original.  Stated for a  *)
(* file that held at least one rule.                                       *)
C12_UnreadableFileBackedUp ==
  (/\ pc \in {"init", "running", "exited"}
   /\ bootLog.unloaded /= NoFile
   /\ bootLog.unloaded.rules /= <<>>)
    => backupFile = bootLog.unloaded

\* A persisted record with a string id and name, type pattern or threshold,
\* an object match and, for a threshold record, numeric windowSeconds and
\* count.
PassesSafetyCheck(record) ==
  /\ {"id", "name", "type", "match"} \subseteq DOMAIN record
  /\ record.name \notin {JsonNumber, JsonNull}
  /\ record.type \in {"pattern", "threshold"}
  /\ record.type = "threshold" => {"windowSeconds", "count"} \subseteq DOMAIN record

\* list holds exactly the records of stored that pass the check, in the
\* order of stored.
KeepsSafeInOrder(list, stored) ==
  LET kept == {i \in 1..Len(stored) : PassesSafetyCheck(stored[i])}
      nth(k) == CHOOSE i \in kept : Cardinality({j \in kept : j <= i}) = k
  IN /\ Len(list) = Cardinality(kept)
     /\ \A k \in 1..Len(list) : list[k] = stored[nth(k)]

\* init read and parsed the file in this step.
Loads ==
  pc = "boot" /\ pc' = "init" /\ dbFile.kind = "doc" /\ bootLog'.unloaded = NoFile

Carried(rule) == DOMAIN rule \cap {"windowSeconds", "count"}

\* The ids of the rules addRule created in this run.
AddedIds == {added[k].id : k \in 1..Len(added)}

(* C14, as stated: in every store state every threshold rule carries       *)
(* windowSeconds and count and every pattern rule carries neither.         *)
C14_ShapeFollowsType ==
  \A i \in 1..Len(rules) :
    /\ rules[i].type = "threshold" => Carried(rules[i]) = {"windowSeconds", "count"}
    /\ rules[i].type = "pattern" => Carried(rules[i]) = {}

(* C14, amended: in every store state every threshold rule carries         *)
(* windowSeconds and count, and every pattern rule that addRule created    *)
(* carries neither; a pattern record loaded from the file keeps what it    *)
(* was stored with.                                                        *)
C14_ShapeFollowsTypeWhenAdded ==
  \A i \in 1..Len(rules) :
    /\ rules[i].type = "threshold" => Carried(rules[i]) = {"windowSeconds", "count"}
    /\ (rules[i].type = "pattern" /\ rules[i].id \in AddedIds) => Carried(rules[i]) = {}

\* The store holds a loaded pattern rule that carries a count, and a
\* pattern rule that addRule built from a compiled rule with a window and
\* a count and that carries neither.
C14_Witness ==
  /\ pc = "running"
  /\ \E i \in 1..Len(rules) :
       rules[i].type = "pattern" /\ rules[i].id \notin AddedIds /\ "count" \in Carried(rules[i])
  /\ \E i \in 1..Len(rules) :
       /\ rules[i].type = "pattern" /\ rules[i].id \in AddedIds
       /\ rules[i].originalCondition = PatternExtra.condition
       /\ Carried(rules[i]) = {}

\* A text as findDuplicateRule compares it.
Normal(text) == ToLowerCase(Trim(text))

\* The values of a match array that count: trimmed, lower-cased, not empty.
NormalSet(match, key) ==
  IF key \in DOMAIN match
    THEN {Normal(match[key][i]) : i \in 1..Len(match[key])} \ {<<>>}
    ELSE {}

\* What a compiled rule says, whatever its presentation.
Content(compiled) ==
  [type |-> compiled.type,
   match |-> [k \in MatchKeys |-> NormalSet(compiled.match, k)],
   numbers |-> [k \in DOMAIN compiled \cap {"windowSeconds", "count"} |-> compiled[k]]]

\* What a stored rule says: its window and count are part of it for a
\* threshold rule only.
StoredContent(rule) ==
  [type |-> rule.type,
   match |-> [k \in MatchKeys |-> NormalSet(rule.match, k)],
   numbers |-> [k \in (IF rule.type = "threshold" THEN DOMAIN rule ELSE {})
                        \cap {"windowSeconds", "count"} |-> rule[k]]]

SameCondition(rule, condition) ==
  "originalCondition" \in DOMAIN rule /\ Normal(rule.originalCondition) = Normal(condition)

IsDuplicate(rule, condition, compiled) ==
  SameCondition(rule, condition) \/ StoredContent(rule) = Content(compiled)

(* C15: findDuplicateRule(c, r) returns an existing rule whenever some      *)
(* stored rule has the same trimmed, lower-cased condition as c, whatever   *)
(* r is; it returns null only if no stored rule matches by condition or by  *)
(* signature; and the rule it returns is the first match in store order.    *)
C15_FindsFirstDuplicate ==
  api.step = "findDuplicateRule" =>
    LET store == api.store
        dup(i) == IsDuplicate(store[i], api.condition, api.compiled)
    IN /\ (\E i \in 1..Len(store) : SameCondition(store[i], api.condition))
            => api.result.found
       /\ ~api.result.found => \A i \in 1..Len(store) : ~dup(i)
       /\ api.result.found =>
            \E i \in 1..Len(store) :
              /\ dup(i) /\ api.result.rule = store[i]
              /\ \A j \in 1..(i - 1) : ~dup(j)

\* Two stored rules match the call, the second one by its condition only
\* (written in another case and with surrounding blanks), the first one by
\* its signature only, and the first one is returned.
C15_Witness ==
  /\ api.step = "findDuplicateRule" /\ Len(api.store) = 2
  /\ SameCondition(api.store[2], api.condition)
  /\ api.store[2].originalCondition /= api.condition
  /\ StoredContent(api.store[2]) /= Content(api.compiled)
  /\ ~SameCondition(api.store[1], api.condition)
  /\ StoredContent(api.store[1]) = Content(api.compiled)
  /\ api.result = Found(api.store[1])
  /\ api.store[1] /= api.store[2]

(* C16: two compiled rules get equal signatures exactly when they have the *)
(* same type, windowSeconds and count and, for each match array, the same  *)
(* set of trimmed, lower-cased, non-empty values: order, letter case,      *)
(* surrounding blanks and repeats make no difference, and every difference *)
(* of content makes one.                                                   *)
C16_SignatureIsCanonical ==
  api.step = "signature" =>
    ((Content(api.left) = Content(api.right)) <=> (api.signatures[1] = api.signatures[2]))

\* Two rules whose pathIncludes hold the same values in another order,
\* case and spacing, one of them twice, got the same signature.
C16_Witness ==
  /\ api.step = "signature"
  /\ "pathIncludes" \in DOMAIN api.left.match \cap DOMAIN api.right.match
  /\ api.left.match.pathIncludes = ValuesAB
  /\ api.right.match.pathIncludes = ValuesABShuffled
  /\ api.left.type = "threshold"
  /\ api.signatures[1] = api.signatures[2]

\* The match object has no non-empty pathIncludes and no non-empty
\* extensions.
Unnarrowed(match) ==
  \A key \in {"pathIncludes", "extensions"} : key \in DOMAIN match => match[key] = <<>>

(* C17: validateCompiledRule returns valid = false with the 'match' error   *)
(* "too broad" for every rule whose match has no non-empty pathIncludes and *)
(* no non-empty extensions, whatever its type, eventTypes, pathExcludes,    *)
(* count and windowSeconds.                                                 *)
C17_BroadRuleRejected ==
  (/\ api.step = "validateCompiledRule"
   /\ "match" \in DOMAIN api.rule
   /\ Unnarrowed(api.rule.match))
    => /\ ~api.result.threw
       /\ ~api.result.valid
       /\ \E i \in 1..Len(api.result.errors) :
            /\ api.result.errors[i].field = "match"
            /\ api.result.errors[i].message = TooBroad.message

\* A threshold rule in order but for its scope (pathIncludes empty, no
\* extensions, pathExcludes and eventTypes given) is rejected with the
\* too-broad error alone.
C17_Witness ==
  /\ api.step = "validateCompiledRule"
  /\ "match" \in DOMAIN api.rule
  /\ DOMAIN api.rule.match = {"pathIncludes", "pathExcludes", "eventTypes"}
  /\ api.rule.match.pathIncludes = <<>>
  /\ api.rule.match.eventTypes /= <<>>
  /\ "type" \in DOMAIN api.rule /\ api.rule.type = "threshold"
  /\ api.result = Validation(<<TooBroad>>)

\* compile answered with a rule.
CompiledARule == api.step = "compile" /\ "rule" \in DOMAIN api.result

(* C19: the rule compile returns is a threshold rule with the count and the *)
(* windowSeconds extracted from the condition exactly when the intent has   *)
(* both; otherwise it is a pattern rule with neither count nor              *)
(* windowSeconds, whatever type and values the model emitted.               *)
C19_KindFollowsIntent ==
  CompiledARule =>
    LET intent == IntentOf(api.condition)
        rule == api.result.rule
    IN IF {"count", "windowSeconds"} \subseteq DOMAIN intent
         THEN /\ rule.type = "threshold"
              /\ {"count", "windowSeconds"} \subseteq DOMAIN rule
              /\ rule.count = intent.count
              /\ rule.windowSeconds = intent.windowSeconds
         ELSE /\ rule.type = "pattern"
              /\ {"count", "windowSeconds"} \cap DOMAIN rule = {}

\* The model said pattern, with a count of 3, for "5 changes to python in
\* 10 minutes": the rule returned is a threshold rule of 5 in 600 seconds.
C19_Witness ==
  /\ CompiledARule
  /\ api.condition = ConditionPy
  /\ api.response.parsed.type = Str(Chars("pattern"))
  /\ "count" \in DOMAIN api.response.parsed /\ api.response.parsed.count = Num(3)
  /\ api.result.rule.type = "threshold"
  /\ api.result.rule.count = 5
  /\ api.result.rule.windowSeconds = 600

\* The condition contains one of the exclusion keywords.
ContainsExclusionWord(condition) ==
  \E w \in ExcludeWords : IncludesText(ToLowerCase(condition), w)

NoDuplicates(list) == \A i, j \in 1..Len(list) : list[i] = list[j] => i = j

(* C20: the scope of the rule compile returns comes from the condition:     *)
(* match.extensions is the intent's extensions when there are any and holds *)
(* none otherwise; match.pathIncludes is the intent's paths without         *)
(* duplicates when there are any and holds none otherwise; match.eventTypes *)
(* is the intent's event types when there are any; and pathExcludes holds   *)
(* an entry only if the condition contains exclude, excluding, except,      *)
(* ignore or ignoring.                                                      *)
C20_ScopeFollowsIntent ==
  CompiledARule =>
    LET intent == IntentOf(api.condition)
        match == api.result.rule.match
    IN /\ ListOf(match, "extensions") = intent.extensions
       /\ NoDuplicates(ListOf(match, "pathIncludes"))
       /\ SeqRange(ListOf(match, "pathIncludes")) = SeqRange(intent.pathIncludes)
       /\ intent.pathIncludes /= <<>> => Len(match.pathIncludes) = Len(intent.pathIncludes)
       /\ intent.eventTypes /= <<>> => ListOf(match, "eventTypes") = intent.eventTypes
       /\ ListOf(match, "pathExcludes") /= <<>> => ContainsExclusionWord(api.condition)

\* The model answered "deleted .ts files in src" with extensions, paths,
\* excludes and event types of its own: the rule returned has the scope of
\* the condition and no pathExcludes.
C20_Witness ==
  /\ CompiledARule
  /\ api.condition = ConditionTs
  /\ "match" \in DOMAIN api.response.parsed
  /\ IsObj(api.response.parsed.match)
  /\ DOMAIN api.response.parsed.match.object = MatchKeys
  /\ IsArr(api.response.parsed.match.object.extensions)
  /\ api.response.parsed.match.object.extensions.array /= <<>>
  /\ api.response.parsed.match.object.pathIncludes.array /= <<>>
  /\ api.result.rule.match = [eventTypes |-> <<Chars("deleted")>>,
                              extensions |-> <<Chars(".ts")>>,
                              pathIncludes |-> <<Chars("src/")>>]

\* The step adds a rule to the store's list.
AddsARule == Len(rules') > Len(rules)

\* The step answers a request without accepting its rule: compilation was
\* rejected or gave no rule, validation failed, or a duplicate exists.
RefusesARule ==
  /\ api' /= api
  /\ api'.step = "answered"
  /\ api'.error \in {"Rule rejected", "Rule compilation failed", "Rule validation failed",
                     "Rule already exists"}

(* C18: POST /rules adds a rule to the store only if                        *)
(* validateCompiledRuleWithIntent finds the compiled rule valid for the     *)
(* submitted condition and no stored rule is a duplicate of it; and when    *)
(* compilation is rejected, validation fails or a duplicate exists, the     *)
(* rule list stays as it is and no save is queued.                          *)
C18_AddsOnlyValidNewRules ==
  [][/\ AddsARule =>
         /\ api'.step = "addRule"
         /\ rules' = Append(rules, rules'[Len(rules')])
         /\ LET condition == Trim(api'.body.condition.string) IN
            /\ rules'[Len(rules')].originalCondition = condition
            /\ StoredContent(rules'[Len(rules')]) = Content(api'.compiled)
            /\ ValidateCompiledRuleWithIntent(api'.compiled, condition) = Validation(<<>>)
            /\ \A i \in 1..Len(rules) : ~IsDuplicate(rules[i], condition, api'.compiled)
     /\ RefusesARule => UNCHANGED <<rules, saves, saveSeq>>]_vars

\* One request was answered 201 and its rule is stored; the next one, whose
\* condition is not the stored text, was answered 409 as a duplicate, and
\* the only saves ever queued are init's and the first request's.
C18_Witness ==
  /\ api.step = "answered" /\ api.status = 409 /\ api.served = 2
  /\ Len(rules) = 1
  /\ rules[1].originalCondition /= Trim(api.body.condition.string)
  /\ saveSeq = 2
  /\ lastOp = [op |-> "addRule", save |-> 2, result |-> "resolved"]

\* compile was applied and gave this result.
CompileResult == IF "result" \in DOMAIN api THEN api.result ELSE <<>>

(* C21: compile(condition) never throws: whatever the model call does      *)
(* (fails after the retries, answers without JSON, with JSON that does     *)
(* not parse, with a reject object, with an invalid type or with a well    *)
(* formed rule), the result carries exactly one of rule and reject, and    *)
(* when the model call failed the reject's reason is "LLM unavailable".    *)
C21_CompileAlwaysResolves ==
  api.step = "compile" /\ "result" \in DOMAIN api =>
    /\ DOMAIN CompileResult \in {{"rule"}, {"reject"}}
    /\ api.response = GenerateFailed =>
         /\ DOMAIN CompileResult = {"reject"}
         /\ CompileResult.reject.reason = Chars("LLM unavailable")

\* The model call failed and compile answered with the reject.
C21_Witness ==
  /\ api.step = "compile" /\ "result" \in DOMAIN api
  /\ api.response = GenerateFailed
  /\ CompileResult = Reject(Chars("LLM unavailable"))

\* The words of a text: its maximal runs of letters, digits and "_".
RECURSIVE TokensFrom(_, _)
TokensFrom(text, i) ==
  IF i > Len(text) THEN {}
  ELSE IF text[i] \in WordChars
    THEN LET end == RunEnd(text, i, WordChars) IN
         {SubSeq(text, i, end - 1)} \cup TokensFrom(text, end)
  ELSE TokensFrom(text, i + 1)

\* One of the words occurs in the condition, in any letter case.
Mentions(condition, words) == TokensFrom(ToLowerCase(condition), 1) \cap words /= {}

\* The event types the keyword classes of a condition stand for, in the
\* order created, modified, deleted.
MentionedEvents(condition) ==
  LET delete == Mentions(condition, DeleteWords)
      create == Mentions(condition, CreateWords)
      modify == Mentions(condition, ModifyWords)
      change == Mentions(condition, ChangeWords)
  IN (IF create \/ (change /\ ~delete /\ ~create /\ ~modify) THEN <<Chars("created")>> ELSE <<>>)
     \o (IF modify \/ change THEN <<Chars("modified")>> ELSE <<>>)
     \o (IF delete THEN <<Chars("deleted")>> ELSE <<>>)

(* C22: extractIntent's eventTypes depends only on which keyword classes   *)
(* occur in the text: deleted iff a delete synonym occurs, created iff a   *)
(* create synonym occurs or a change word occurs with no delete, create or *)
(* modify synonym, modified iff a modify synonym or a change word occurs;  *)
(* and the list is in the order created, modified, deleted whatever the    *)
(* order of mention.                                                       *)
C22_EventTypesFollowKeywords ==
  api.step = "extractIntent" => api.result.eventTypes = MentionedEvents(api.condition)

\* A delete synonym mentioned before a change word: modified comes first
\* in the result, and created is left out.
C22_Witness ==
  /\ api.step = "extractIntent"
  /\ api.condition = Chars("DELETE files change")
  /\ api.result.eventTypes = <<Chars("modified"), Chars("deleted")>>

\* validateCompiledRule ran on a threshold rule and returned.
ValidatedThreshold ==
  /\ api.step = "validateCompiledRule"
  /\ "type" \in DOMAIN api.rule /\ api.rule.type = "threshold"
  /\ ~api.result.threw

\* The rule's member is a number from low to high.
NumberWithin(rule, key, low, high) ==
  key \in DOMAIN rule /\ low <= rule[key] /\ rule[key] <= high

\* How many of the errors are about the field.
ErrorsAbout(errors, field) == Cardinality({i \in 1..Len(errors) : errors[i].field = field})

(* C23: for a threshold rule, validateCompiledRule accepts windowSeconds   *)
(* only if it is a number from 10 to 86400 and count only if it is a       *)
(* number from 1 to 1000; each violation has its own error, so a rule      *)
(* violating both has a windowSeconds error and a count error.             *)
C23_ThresholdNumbersInRange ==
  ValidatedThreshold =>
    /\ ErrorsAbout(api.result.errors, "windowSeconds") =
         IF NumberWithin(api.rule, "windowSeconds", 10, 86400) THEN 0 ELSE 1
    /\ ErrorsAbout(api.result.errors, "count") =
         IF NumberWithin(api.rule, "count", 1, 1000) THEN 0 ELSE 1
    /\ api.result.valid =>
         /\ NumberWithin(api.rule, "windowSeconds", 10, 86400)
         /\ NumberWithin(api.rule, "count", 1, 1000)

\* A threshold rule in order but for a window just above its range and a
\* count just below: the two errors, and no other.
C23_Witness ==
  /\ ValidatedThreshold
  /\ "windowSeconds" \in DOMAIN api.rule /\ api.rule.windowSeconds = 86401
  /\ "count" \in DOMAIN api.rule /\ api.rule.count = 0
  /\ api.result = Validation(<<Error("windowSeconds", "must be between"),
                               Error("count", "must be between")>>)

\* The evaluateEvent call has started and not yet returned or rejected.
InProgress(c) == calls[c].pc /= "done"

(* C24: event evaluations never overlap: evaluateEvent for one file event  *)
(* runs to completion, the saves of recordMatch included, before           *)
(* evaluateEvent for the next event starts, so that events (of one path    *)
(* too) are evaluated in their arrival order.                              *)
C24_EvaluationsNeverOverlap ==
  \A c, d \in 1..Len(calls) : c < d /\ InProgress(d) => ~InProgress(c)

\* What the rule's window is after the rule was evaluated against the
\* event at time t, from an empty window.
WindowHad(event, rule, t) ==
  EvaluateRule(event, rule, [id \in WindowIds |-> <<>>], t).windows[rule.id]

\* The first event the daemon was handed ended with evaluateEvent
\* rejecting; no other event has arrived.
FirstEventFailed == returned.status = "rejected" /\ stats.eventsObserved = 1

(* C25: a failure while one event is processed (recordMatch's save         *)
(* rejecting in the middle of evaluateEvent) is isolated to that event:    *)
(* it is caught, the daemon keeps running, and the threshold windows of    *)
(* the other rules are exactly what they would be had the save succeeded,  *)
(* that is, what evaluating each of them against the event leaves.         *)
C25_FailureIsIsolated ==
  FirstEventFailed =>
    /\ pc = "running"
    /\ \A j \in 1..Len(returned.rules) :
         LET rule == returned.rules[j]
             failed == returned.matches[Len(returned.matches)].ruleId
         IN rule.id /= failed /\ rule.type = "threshold" =>
              thresholdWindows[rule.id] = WindowHad(returned.event, rule, now)

\* The step is the process exiting on a shutdown signal.
Exits == pc = "running" /\ pc' = "stopped"

(* C26: on shutdown (SIGINT or SIGTERM) every save that is queued or in    *)
(* flight in the rule store completes before the process exits, so that    *)
(* the last mutation made before the signal is on disk after the exit      *)
(* (when the last save succeeded).                                         *)
C26_ShutdownCompletesSaves ==
  [][Exits =>
       /\ \A i \in 1..Len(saves) : Settled(saves[i])
       /\ saves[Len(saves)].st = "ok" => dbFile' = JsonStringify(rules)]_vars

\* The ids of the rules whose filter the event passes, in list order.
RECURSIVE MatchingIds(_, _)
MatchingIds(event, ruleList) ==
  IF ruleList = <<>> THEN <<>>
  ELSE (IF MatchesFilter(event, Head(ruleList).match) THEN <<Head(ruleList).id>> ELSE <<>>)
       \o MatchingIds(event, Tail(ruleList))

\* An event can be handed to the listener: the daemon runs and the
\* scenario has an event and a call left.
EventDue == pc = "running" /\ eventCount < scenario.events /\ InFlightOps < MaxInFlight

LastOf(list, n) == SubSeq(list, IF Len(list) > n THEN Len(list) - n + 1 ELSE 1, Len(list))

(* C28: the recent-match buffer never holds more than recentMatchLimit     *)
(* entries, and they are the most recently recorded matches in recording   *)
(* order: the buffer changes only when an evaluateEvent call records its   *)
(* match, which is appended, the oldest entry being evicted on overflow;   *)
(* what a caller does with the array getRecentMatches gave it does not     *)
(* change the buffer.                                                      *)
C28_RecentMatchesBounded ==
  /\ [](Len(recentMatches) <= RecentMatchLimit)
  /\ [][recentMatches' /= recentMatches =>
          \E c \in 1..Len(calls) :
            /\ calls[c].pc = "resumeOk"
            /\ calls'[c] /= calls[c]
            /\ recentMatches' =
                 LastOf(Append(recentMatches, calls[c].match), RecentMatchLimit)]_vars

\* Three matches were recorded, the buffer holds the last two of them, the
\* first one having been evicted, and a caller has shifted the array it
\* was given without the buffer's changing.
C28_Witness ==
  /\ pushed = 3
  /\ Len(recentMatches) = RecentMatchLimit
  /\ recentMatches[1].path /= recentMatches[2].path
  /\ api.step = "shifted"
  /\ Len(api.result.items) = RecentMatchLimit - 1
  /\ calls = <<DoneCall, DoneCall, DoneCall>>

\* File events of every type on paths with and without directories and
\* extensions, in either letter case.
AnyFileEvents ==
  {[type |-> Chars(type), path |-> path] :
     type \in {"created", "modified", "deleted"}, path \in FilterPaths}

(* C29: the too-broad guard cannot be bypassed: for every rule that        *)
(* validateCompiledRule accepts there is a file event its filter does not  *)
(* match; no accepted rule, such as one whose pathIncludes or extensions   *)
(* holds an empty string, matches every file event.  Stated for the rules  *)
(* the engine can fire, those of type pattern or threshold.                *)
C29_AcceptedRuleIsNarrowed ==
  (/\ api.step = "validateCompiledRule" /\ ~api.result.threw /\ api.result.valid
   /\ api.rule.type \in {"pattern", "threshold"})
    => \E event \in AnyFileEvents : ~MatchesFilter(event, api.rule.match)

\* The store's list holds the rule, enabled.
StoredEnabled(id) == \E i \in 1..Len(rules) : rules[i].id = id /\ rules[i].enabled

(* C30: no match is recorded for a rule after the rule has been deleted    *)
(* or disabled in the store's list: whatever a request does while an       *)
(* evaluateEvent call is in progress, a step of the call that counts a     *)
(* new match in stats.matches, or that appends a match to the recent       *)
(* matches, does so for a rule the list holds, enabled, at that moment.    *)
C30_NoMatchAfterRemoval ==
  [][\A c \in 1..Len(calls) :
       calls'[c] /= calls[c] =>
         /\ stats'.matches > stats.matches => StoredEnabled(calls'[c].match.ruleId)
         /\ recentMatches' /= recentMatches => StoredEnabled(calls[c].match.ruleId)]_vars

\* The matches the engine has produced that are still held somewhere.
HeldMatches ==
  SeqRange(recentMatches) \cup SeqRange(returned.matches)
    \cup UNION {SeqRange(calls[c].matches) : c \in 1..Len(calls)}

C32_DisabledWindowUntouched ==
  [][\A i \in 1..Len(rules) :
       (/\ rules[i].type = "threshold" /\ ~rules[i].enabled
        /\ \E k \in 1..Len(rules') : rules'[k].id = rules[i].id /\ ~rules'[k].enabled)
         => thresholdWindows'[rules[i].id] = thresholdWindows[rules[i].id]]_vars

(* C33: under any interleaving of concurrent POST /rules requests the      *)
(* store never holds two rules whose trimmed, lowercased originalCondition *)
(* are equal or whose canonical signatures are equal.                      *)
C33_NoDuplicatesUnderConcurrency ==
  \A i, j \in 1..Len(rules) :
    i < j =>
      /\ ToLowerCase(Trim(rules[i].originalCondition))
           /= ToLowerCase(Trim(rules[j].originalCondition))
      /\ RuleSignatureFromRule(rules[i]) /= RuleSignatureFromRule(rules[j])

(* C34: a stored rule is recognised as a duplicate of the compiled rule it *)
(* was created from: for every compiled rule validateCompiledRule accepts, *)
(* the rule addRule stores has the compiled rule's signature, and          *)
(* findDuplicateRule returns it for that compiled rule under any condition *)
(* text.                                                                   *)
C34_StoredRuleIsItsOwnDuplicate ==
  (api.step = "addRule" /\ api.compiled.type \in {"pattern", "threshold"}) =>
    /\ RuleSignatureFromRule(api.stored) = RuleSignatureFromCompiled(api.compiled)
    /\ api.duplicate = Found(api.stored)

(* C35: the rule compile returns agrees with the intent: for every         *)
(* condition and every model output that parses to a rule,                 *)
(* validateCompiledRuleWithIntent of the returned rule and the condition   *)
(* does not throw and reports the errors of validateCompiledRule and no    *)
(* other, i.e. no error about type, count, windowSeconds, eventTypes,      *)
(* extensions or pathIncludes disagreeing with the condition.              *)
C35_CompiledRuleAgreesWithIntent ==
  CompiledARule =>
    LET withIntent == ValidateCompiledRuleWithIntent(api.result.rule, api.condition)
        base == ValidateCompiledRule(api.result.rule)
    IN /\ ~withIntent.threw
       /\ withIntent.errors = base.errors
       /\ IntentErrors(api.result.rule, IntentOf(api.condition)) = <<>>

\* The rule the model emitted for "5 changes to python in 10 minutes"
\* disagreed with the condition, and the rule compile returned is valid
\* for it.
C35_Witness ==
  /\ CompiledARule
  /\ api.condition = ConditionPy
  /\ IntentErrors(ParseResponse(api.response).rule, IntentOf(api.condition)) /= <<>>
  /\ ValidateCompiledRuleWithIntent(api.result.rule, api.condition).valid

(* C36: validation reports malformed input as a value and never throws:    *)
(* for every rule object, one without a match object included,             *)
(* validateCompiledRule returns a result, and for a rule without a match   *)
(* object the result is invalid with an error on the field match.          *)
C36_ValidationNeverThrows ==
  api.step = "validateCompiledRule" =>
    /\ ~api.result.threw
    /\ "match" \notin DOMAIN api.rule =>
         /\ ~api.result.valid
         /\ \E i \in 1..Len(api.result.errors) : api.result.errors[i].field = "match"

\* The type the claim gives a burst of notifications.
BurstType(burst) ==
  IF \E i \in 1..Len(burst) : burst[i].type = "unlink" THEN "deleted"
  ELSE IF \E i \in 1..Len(burst) : burst[i].type = "add" THEN "created"
  ELSE "modified"

\* The watcher's timer fires for the file in this step.
Fires(file) ==
  /\ api.step = "watching" /\ api'.step = "watching"
  /\ api.debounceMap[file].armed /\ ~api'.debounceMap[file].armed

(* C37: the file watcher coalesces per path.  A notification that arrives  *)
(* less than the debounce period after the previous one for its path joins *)
(* that one's burst; when the timer of a path inside the watch directory   *)
(* fires, exactly one event is emitted for the whole burst, one debounce   *)
(* period after the last notification, with type deleted if the burst has  *)
(* an unlink, otherwise created if it has an add, otherwise modified.      *)
C37_WatcherCoalescesPerPath ==
  [][\A file \in WatchedFiles :
       /\ Fires(file) /\ normalizePath(file) /= NoPath =>
            LET burst == api.debounceMap[file].burst IN
            /\ api'.emitted = Append(api.emitted,
                                     [type |-> BurstType(burst), path |-> normalizePath(file),
                                      timestamp |-> burst[Len(burst)].at + DebounceTicks])
            /\ now = burst[Len(burst)].at + DebounceTicks
       /\ (api.step = "watching" /\ api'.step = "watching" /\ ~Fires(file)) =>
            /\ api'.emitted = api.emitted \/ \E other \in WatchedFiles \ {file} : Fires(other)
            /\ LET before == api.debounceMap[file]
                   after == api'.debounceMap[file]
               IN (before.armed /\ after /= before) =>
                    /\ after.armed
                    /\ after.burst = Append(before.burst, after.burst[Len(after.burst)])]_vars

\* An event of type deleted was emitted for a/x.t after a burst of an add,
\* a change and an unlink at three different times, and nothing else was.
C37_Witness ==
  /\ api.step = "watching"
  /\ Len(api.emitted) = 1
  /\ api.emitted[1].type = "deleted" /\ api.emitted[1].path = Chars("a/x.t")
  /\ api.emitted[1].timestamp = 2 + DebounceTicks
  /\ api.raw = 3
  /\ \A file \in WatchedFiles : ~api.debounceMap[file].armed

\* The generate calls that have returned or thrown.
FinishedCalls ==
  IF api.call.pc \in {"posting", "delay"} THEN api.calls - 1 ELSE api.calls

(* C38: with retry budget 2 a generate call makes at most 2 attempts, and  *)
(* it throws only after its second attempt; each generate call is counted  *)
(* once in the token usage, so requestCount is the number of calls made    *)
(* and equals successCount + failureCount after every call.                *)
C38_GenerateCountedOnce ==
  api.step = "llm" =>
    /\ api.call.posts <= Retries
    /\ api.call.pc = "threw" => api.call.posts = Retries
    /\ api.usage.requestCount = api.usage.successCount + api.usage.failureCount
    /\ api.call.pc \in {"returned", "threw"} => api.call.counted = 1
    /\ api.call.pc \in {"idle", "returned", "threw"} =>
         api.usage.requestCount = FinishedCalls

(* C39: for each notification key, two notifications sent are at least the *)
(* de-duplication window apart; the entry of a key is the time of the last *)
(* notification sent for it, so a suppressed one does not move it; and a   *)
(* key whose entry the cleanup removed is past its window.  A disabled     *)
(* notifier sends nothing.                                                 *)
C39_NotificationsDeduplicated ==
  api.step = "notifier" =>
    \A key \in NotificationKeys :
      LET sent == api.sent[key]
          entry == api.recentNotifications[key]
      IN /\ \A i \in 1..(Len(sent) - 1) : sent[i + 1] - sent[i] >= dedupeWindow
         /\ entry.set => sent /= <<>> /\ entry.at = sent[Len(sent)]
         /\ (sent /= <<>> /\ ~entry.set) => DateNow - sent[Len(sent)] >= dedupeWindow
         /\ ~api.enabled => sent = <<>>

\* A key suppressed inside its window and sent again exactly one window
\* after, while the cleanup has removed the entry of another key.
C39_Witness ==
  /\ api.step = "notifier"
  /\ \E key \in NotificationKeys :
       /\ Len(api.sent[key]) = 2
       /\ api.sent[key][2] - api.sent[key][1] = dedupeWindow
       /\ api.suppressed[key] = 1
  /\ \E key \in api.cleaned :
       /\ api.sent[key] /= <<>> /\ ~api.recentNotifications[key].set

(* C40: the queue stays within its limits and honours drain.  At most      *)
(* maxConcurrent tasks run; for maxQueueSize >= 1 at most maxQueueSize     *)
(* tasks wait; the task rejected on overflow had the largest priority      *)
(* value of the waiting tasks and is never run; after drain no task is     *)
(* started, the tasks that waited are rejected, every later enqueue is     *)
(* rejected, and the tasks that ran are left to complete.                  *)
C40_QueueLimitsAndDrain ==
  api.step = "queue" =>
    /\ api.active <= api.maxConcurrent
    /\ api.active = Cardinality(api.running)
    /\ api.maxQueueSize >= 1 => Len(api.queue) <= api.maxQueueSize
    /\ \A priority \in api.lastDrop.waiting : priority <= api.lastDrop.priority
    /\ \A id \in TaskIds : api.outcome[id] = "overflow" => id \notin api.started
    /\ api.shuttingDown =>
         /\ api.queue = <<>>
         /\ api.started = api.drain.started
         /\ \A id \in api.drain.waiting : api.outcome[id] = "cancelled"
         /\ \A id \in TaskIds :
              (id \notin api.drain.waiting /\ id \notin api.drain.started
                 /\ api.outcome[id] /= "none") =>
                api.outcome[id] \in {"shutdown", "overflow"}
         /\ \A id \in api.drain.running :
              api.outcome[id] \in {"running", "resolved", "failed"}

\* A full queue dropped a task of priority 2 that waited beside one of
\* priority 1; drain then cancelled a waiting task while one ran, the
\* running task resolved afterwards and a later enqueue was rejected.
C40_Witness ==
  /\ api.step = "queue"
  /\ api.lastDrop.priority = 2 /\ 1 \in api.lastDrop.waiting
  /\ api.shuttingDown
  /\ api.drain.waiting /= {}
  /\ \E id \in api.drain.running : api.outcome[id] = "resolved"
  /\ \E id \in TaskIds : api.outcome[id] = "shutdown"

====
